---- MODULE Spec2Model ----
(***************************************************************************)
(* A model of the in-browser preview engine: the media element the host    *)
(* provides, the useCanvasPlayer hook (transport and the two scheduler     *)
(* loops), the CanvasPreview component (trim and loop controller, export   *)
(* capturer) and the EditorApp page (sequencer).                           *)
(*                                                                         *)
(* Times are whole centiseconds (1 = 0.01 s).  An optional number (a ref   *)
(* that holds null or a number) is a sequence of length 0 or 1.            *)
(***************************************************************************)
EXTENDS Integers, Sequences, FiniteSets, TLC

VARIABLES video, player, preview, export, page, hist

vars == <<video, player, preview, export, page, hist>>

----------------------------------------------------------------------------
(* Bounds of the model *)

\* The dense time points: 0..NearMax after the start of a source and
\* NearMax points before its end.
NearMax == 2
\* Source durations are DurK * MaxMinGap centiseconds, whole multiples of 0.5 s.
DurK == 1
\* The sources the preview can be given (0 is the empty source).
NSources == 2
\* Cap on the counters that record calls (history only).
MaxCount == 3
\* Cap on the play() promises that are pending at one time.
MaxPlays == 2
\* The clips the timeline can hold.
MaxClips == 2
\* The share of the upload (of 30) that an intermediate progress event reports.
UploadHalf == 15
\* Cap on the presses of the split and delete buttons.
MaxEdits == 3
\* The inspector sliders take the multiples of SliderStep in 0..100 (percent).
SliderStep == 25

\* The side of the sample of the canvas, in pixels
SurfaceSide == 6

(* Program constants, in centiseconds *)

\* Math.abs(video.currentTime - forced) <= 0.02
SeekEpsilon == 2
\* const epsilon = 0.01 of the trim effect
TrimEpsilon == 1
\* Math.abs(delta) > 0.25 resynchronises the playhead
ResyncDelta == 25
\* delta < -0.02 is ignored as backward drift
BackDrift == 2
\* Math.min(0.5, duration * 0.02), the 0.5
MaxMinGap == 50
\* Math.max(0, sequenceDuration - 0.05)
RestartMargin == 5
\* getAssetDuration: return 10 for an asset without a duration
DefaultDuration == 1000
\* offset <= 0.1 || offset >= target.duration - 0.1
SplitMargin == 10

----------------------------------------------------------------------------
(* Helpers *)

Min(a, b) == IF a <= b THEN a ELSE b
Max(a, b) == IF a >= b THEN a ELSE b
Abs(a) == IF a >= 0 THEN a ELSE -a

Null == <<>>
Some(x) == <<x>>
IsNull(o) == o = <<>>
\* forcedTimeRef.current ?? other
OrElse(o, other) == IF o = <<>> THEN other ELSE o[1]

\* video.duration of a source once its metadata is loaded
SourceDuration(s) == DurK * MaxMinGap

\* The frame size the handlers assume for an element that reports none
BaseWidth == 1280

BaseHeight == 720

\* The frame sizes of further sources: wide, tall, square, nearly square
\* and extreme ones
OtherSizes ==
    << <<1920, 1080>>, <<720, 1280>>, <<1000, 1000>>, <<640, 480>>,
       <<3, 1000>>, <<1000, 3>>, <<1, 1>>, <<1279, 719>> >>

\* video.videoWidth and video.videoHeight of a source once its metadata is
\* loaded: the sources of the library are 1280 x 720, the further ones of
\* the sizes above
SourceSize(s) ==
    IF s \in 1..Len(OtherSizes) + NSources /\ s > NSources
    THEN OtherSizes[s - NSources]
    ELSE <<BaseWidth, BaseHeight>>

Times == {t \in 0..(DurK * MaxMinGap) : t <= NearMax \/ t >= DurK * MaxMinGap - NearMax}

Sources == 1..NSources

\* The time points next to the start and to the end of a source
Coarse == {t \in Times : t <= 1 \/ t >= DurK * MaxMinGap - 1}

----------------------------------------------------------------------------
(* The combined state the handlers act on *)

W == [v |-> video, p |-> player, c |-> preview, e |-> export, g |-> page,
      h |-> hist]

Apply(w) ==
    /\ video' = w.v
    /\ player' = w.p
    /\ preview' = w.c
    /\ export' = w.e
    /\ page' = w.g
    /\ hist' = w.h

----------------------------------------------------------------------------
(* The media element (HTMLVideoElement), owned by the host *)

\* A freshly mounted <video key={videoSource} src={videoSource}>
NewVideo(s) ==
    [ src |-> s, ready |-> FALSE, paused |-> TRUE, time |-> 0, dur |-> 0,
      seek |-> "none", target |-> 0, play |-> 0,
      videoWidth |-> 0, videoHeight |-> 0 ]

\* video.ended: playback position at the end of a loaded resource
Ended(v) == v.ready /\ v.dur > 0 /\ v.time = v.dur

\* video.pause(): paused becomes true and a pending play() promise is rejected
pause(w) == [w EXCEPT !.v.paused = TRUE, !.v.play = 0]

\* video.play() that the host allows: paused becomes false, an ended resource
\* restarts from its beginning, and the promise stays pending until frames
\* are available
play(w) ==
    [w EXCEPT !.v.paused = FALSE,
              !.v.time = IF Ended(w.v) THEN 0 ELSE @,
              !.v.seek = IF Ended(w.v) THEN "landed" ELSE @,
              !.v.play = @ + 1]

\* video.currentTime = x on an element with metadata: the position is clamped
\* to the resource; the host reports it at once, or (lag) only once the seek
\* has landed.  Without metadata the assignment changes nothing observable.
seek(w, x, lag) ==
    IF ~w.v.ready THEN w
    ELSE LET t == Max(0, Min(x, w.v.dur)) IN
         IF lag /\ t # w.v.time
         THEN [w EXCEPT !.v.seek = "lag", !.v.target = t]
         ELSE [w EXCEPT !.v.seek = "landed", !.v.target = 0, !.v.time = t]

\* video.load() / removing the src: the element returns to its initial state
load(w) == [w EXCEPT !.v = NewVideo(w.v.src)]

----------------------------------------------------------------------------
(* useCanvasPlayer: the crop geometry.  An aspect ratio is a fraction        *)
(* [n, d] with d > 0; the crop is exact: its offsets and sizes are the       *)
(* numerators of fractions over q.                                           *)

\* aspectValue of the preview and the targetAspectRatio it gives the hook
aspectValue(aspectRatio) ==
    CASE aspectRatio = "none" -> Null
      [] aspectRatio = "square" -> Some([n |-> 1, d |-> 1])
      [] aspectRatio = "vertical" -> Some([n |-> 9, d |-> 16])
      [] OTHER -> Some([n |-> 16, d |-> 9])

targetAspectRatio(w) ==
    IF w.g.cropMode = "local" THEN aspectValue(w.c.aspectRatio) ELSE Null

\* Math.round of num / den, for num >= 0
Round(num, den) == (2 * num + den) \div (2 * den)

\* computeOutputSize that crops the side that already fits
computeOutputSize_flipped(target, sourceWidth, sourceHeight) ==
    IF IsNull(target) \/ target[1].n <= 0
    THEN [ width |-> sourceWidth, height |-> sourceHeight, q |-> 1,
           sx |-> 0, sy |-> 0,
           sWidth |-> sourceWidth, sHeight |-> sourceHeight ]
    ELSE LET n == target[1].n
             d == target[1].d
             wide == sourceWidth * d < n * sourceHeight
             den == IF wide THEN d ELSE n
             cropWidth == IF wide THEN sourceHeight * n ELSE sourceWidth * n
             cropHeight == IF wide THEN sourceHeight * d ELSE sourceWidth * d
         IN  [ width |-> Round(cropWidth, den),
               height |-> Round(cropHeight, den),
               q |-> 2 * den,
               sx |-> Max(0, sourceWidth * den - cropWidth),
               sy |-> Max(0, sourceHeight * den - cropHeight),
               sWidth |-> 2 * cropWidth, sHeight |-> 2 * cropHeight ]

\* computeOutputSize that crops to a square when it is given no ratio
computeOutputSize_square(target, sourceWidth, sourceHeight) ==
    LET n == IF IsNull(target) \/ target[1].n <= 0 THEN 1 ELSE target[1].n
        d == IF IsNull(target) \/ target[1].n <= 0 THEN 1 ELSE target[1].d
        wide == sourceWidth * d > n * sourceHeight
        den == IF wide THEN d ELSE n
        cropWidth == IF wide THEN sourceHeight * n ELSE sourceWidth * n
        cropHeight == IF wide THEN sourceHeight * d ELSE sourceWidth * d
    IN  [ width |-> Round(cropWidth, den),
          height |-> Round(cropHeight, den),
          q |-> 2 * den,
          sx |-> Max(0, sourceWidth * den - cropWidth),
          sy |-> Max(0, sourceHeight * den - cropHeight),
          sWidth |-> 2 * cropWidth, sHeight |-> 2 * cropHeight ]

\* computeOutputSize: sx, sy, sWidth and sHeight are in units of 1 / q
computeOutputSize(target, sourceWidth, sourceHeight) ==
    IF IsNull(target) \/ target[1].n <= 0
    THEN [ width |-> sourceWidth, height |-> sourceHeight, q |-> 1,
           sx |-> 0, sy |-> 0,
           sWidth |-> sourceWidth, sHeight |-> sourceHeight ]
    ELSE LET n == target[1].n
             d == target[1].d
             wide == sourceWidth * d > n * sourceHeight
             den == IF wide THEN d ELSE n
             cropWidth == IF wide THEN sourceHeight * n ELSE sourceWidth * n
             cropHeight == IF wide THEN sourceHeight * d ELSE sourceWidth * d
         IN  [ width |-> Round(cropWidth, den),
               height |-> Round(cropHeight, den),
               q |-> 2 * den,
               sx |-> Max(0, sourceWidth * den - cropWidth),
               sy |-> Max(0, sourceHeight * den - cropHeight),
               sWidth |-> 2 * cropWidth, sHeight |-> 2 * cropHeight ]

\* The canvas takes the size of the crop of the element's frame
resizeCanvas(w, width, height) ==
    LET output == computeOutputSize(targetAspectRatio(w), width, height)
    IN  [w EXCEPT !.p.canvasSize = <<output.width, output.height>>]

\* The effect on [computeOutputSize, drawFrame]: the canvas is resized for
\* the element's frame, or for its own size while the element has none
resizeEffect(w) ==
    resizeCanvas(w,
                 IF w.v.videoWidth # 0 THEN w.v.videoWidth
                 ELSE w.p.canvasSize[1],
                 IF w.v.videoHeight # 0 THEN w.v.videoHeight
                 ELSE w.p.canvasSize[2])

----------------------------------------------------------------------------
(* useCanvasPlayer: the effect strengths of drawFrame.  A slider amount is  *)
(* in percent (amount * 100); a strength is in 1/10000.                     *)

\* Math.min(sharpenAmount, 0.6) in both regimes
sharpenStrength_flat(isPreview, amount) == Min(amount, 60) * 100

\* isPreview ? Math.min(sharpenAmount, 0.2) : Math.min(sharpenAmount, 0.6)
sharpenStrength(isPreview, amount) ==
    IF isPreview THEN Min(amount, 20) * 100 ELSE Min(amount, 60) * 100

\* isPreview ? noiseAmount * 0.08 : noiseAmount * 0.2
noiseStrength(isPreview, amount) ==
    IF isPreview THEN amount * 8 ELSE amount * 20

\* isPreview ? grainAmount * 0.12 : grainAmount * 0.3
grainStrength(isPreview, amount) ==
    IF isPreview THEN amount * 12 ELSE amount * 30

\* The strengths that drawFrame gives to applySharpen and applyNoise for
\* the amounts of the current props; isPreview is isPlayingRef.current
drawFrame(w) ==
    [ sharpen |-> sharpenStrength(w.p.isPlayingRef, w.c.sharpenAmount),
      noise |-> noiseStrength(w.p.isPlayingRef, w.c.noiseAmount),
      grain |-> grainStrength(w.p.isPlayingRef, w.c.grainAmount) ]

----------------------------------------------------------------------------
(* useCanvasPlayer: the passes of drawFrame on the canvas.  The surface is  *)
(* a square sample of the canvas, SurfaceSide pixels wide; a pixel is one   *)
(* level of 0..255, the frames and the noise being gray (r = g = b) and     *)
(* opaque.  Strengths and alpha are in 1/10000.                             *)

Pixels == (0..(SurfaceSide - 1)) \X (0..(SurfaceSide - 1))

\* ctx.clearRect on the whole canvas, and a canvas that was never drawn
Blank == [p \in Pixels |-> 0]

\* The frame of the element at its position, for ctx.drawImage(video, ...)
videoFrame(v) ==
    [p \in Pixels |-> (p[1] * 37 + p[2] * 11 + v.src * 50 + v.time) % 256]

\* ctx.globalAlpha = a: a value outside [0, 1] is ignored, and the context
\* saved by the pass has the default alpha of 1
setGlobalAlpha(a) == IF a \in 0..10000 THEN a ELSE 10000

\* The level left by drawing src over dst with the alpha of the context
sourceOver(dst, src, alpha) == Round(src * alpha + dst * (10000 - alpha), 10000)

\* globalCompositeOperation "screen" and "overlay" on an opaque backdrop
blendMode(mode, dst, src) ==
    IF mode = "screen"
    THEN 255 - Round((255 - dst) * (255 - src), 255)
    ELSE IF dst < 128
    THEN Round(2 * dst * src, 255)
    ELSE 255 - Round(2 * (255 - dst) * (255 - src), 255)

\* The noise canvas has a quarter of the side, at least one pixel
NoiseSide == Max(1, (SurfaceSide * 25) \div 100)

NoisePixels == (0..(NoiseSide - 1)) \X (0..(NoiseSide - 1))

\* Math.floor(Math.random() * 255) for each pixel of the noise canvas
NoiseLevels == {0, 254}

Noises == [NoisePixels -> NoiseLevels]

\* The body of applyNoise behind its test of the intensity: the noise
\* canvas is drawn over the whole canvas without smoothing, with the
\* intensity as alpha and the given composite operation
drawNoise(surface, intensity, mode, noise) ==
    LET alpha == setGlobalAlpha(intensity) IN
    [p \in Pixels |->
        LET dst == surface[p]
            src == noise[<<(p[1] * NoiseSide) \div SurfaceSide,
                           (p[2] * NoiseSide) \div SurfaceSide>>]
        IN  sourceOver(dst, blendMode(mode, dst, src), alpha)]

\* applyNoise that draws whatever the intensity
applyNoise_ungated(surface, intensity, mode, noise) ==
    drawNoise(surface, intensity, mode, noise)

\* applyNoise: if (intensity <= 0) return
applyNoise(surface, intensity, mode, noise) ==
    IF intensity <= 0 THEN surface
    ELSE drawNoise(surface, intensity, mode, noise)

\* The sharpen canvas has half of the side, at least one pixel
SharpenSide == Max(1, SurfaceSide \div 2)

SharpenPixels == (0..(SharpenSide - 1)) \X (0..(SharpenSide - 1))

\* sharpenCtx.drawImage(ctx.canvas, 0, 0, w, h): a pixel of the sharpen
\* canvas is the mean of the pixels of the canvas that it covers
shrink(surface) ==
    LET k == SurfaceSide \div SharpenSide IN
    [q \in SharpenPixels |->
        LET RECURSIVE Sum(_, _)
            Sum(i, j) ==
                IF i = k THEN 0
                ELSE IF j = k THEN Sum(i + 1, 0)
                ELSE surface[<<q[1] * k + i, q[2] * k + j>>] + Sum(i, j + 1)
        IN  Round(Sum(0, 0), k * k)]

\* The 3x3 kernel (0, -a, 0, -a, 1 + 4a, -a, 0, -a, 0) on the pixels that
\* have all their neighbours, clamped to 0..255; the border is copied
convolve(src, amount) ==
    [q \in SharpenPixels |->
        IF q[1] \in 1..(SharpenSide - 2) /\ q[2] \in 1..(SharpenSide - 2)
        THEN LET sum == src[q] * (10000 + 4 * amount)
                        - amount * (src[<<q[1] - 1, q[2]>>]
                                    + src[<<q[1] + 1, q[2]>>]
                                    + src[<<q[1], q[2] - 1>>]
                                    + src[<<q[1], q[2] + 1>>])
             IN  Round(Max(0, Min(255 * 10000, sum)), 10000)
        ELSE src[q]]

\* The body of applySharpen behind its test of the amount: the canvas is
\* drawn at half size, convolved, and drawn back over the whole canvas
\* with alpha Math.min(1, amount)
drawSharpen(surface, amount) ==
    LET output == convolve(shrink(surface), amount)
        alpha == setGlobalAlpha(Min(10000, amount))
        k == SurfaceSide \div SharpenSide
    IN  [p \in Pixels |->
            sourceOver(surface[p], output[<<p[1] \div k, p[2] \div k>>],
                       alpha)]

\* applySharpen that draws whatever the amount
applySharpen_ungated(surface, amount) == drawSharpen(surface, amount)

\* applySharpen: if (amount <= 0) return
applySharpen(surface, amount) ==
    IF amount <= 0 THEN surface ELSE drawSharpen(surface, amount)

\* The three passes of drawFrame in their order: sharpen, noise with
\* "screen", grain with "overlay"
passes(surface, strength, noise, grain) ==
    applyNoise(applyNoise(applySharpen(surface, strength.sharpen),
                          strength.noise, "screen", noise),
               strength.grain, "overlay", grain)

\* drawFrame on the canvas: nothing before the element has a frame
\* (readyState < 2); otherwise the canvas is cleared, the frame drawn and
\* the passes applied with the strengths of the current props.  The
\* vignette and the text overlay, drawn after the passes, are left out.
compositeFrame(w, noise, grain) ==
    IF w.v.src = 0 \/ ~w.v.ready THEN w
    ELSE [w EXCEPT !.p.surface =
                      passes(videoFrame(w.v), drawFrame(w), noise, grain)]

----------------------------------------------------------------------------
(* useCanvasPlayer: helpers *)

\* setCurrentTime(t); the effect that copies currentTime to lastPlayheadRef
\* runs on the following render when that render is not playing
setCurrentTime(w, t) ==
    [w EXCEPT !.p.currentTime = t,
              !.c.lastPlayheadRef =
                  IF ~w.p.isPlaying /\ ~w.p.rPlaying THEN t ELSE @]

\* A loop handle (frameLoopRef, timeUpdateRef) is "null", or names a callback
\* requested for the mounted element ("cur") or for a replaced one ("old");
\* frameCbs/timeCbs count the pending callbacks of the mounted element and
\* frameOld/timeOld those of replaced elements.
cancelFrameLoop(w) ==
    IF w.p.frameLoopRef = "null" THEN w
    ELSE IF w.p.frameLoopRef = "cur"
    THEN [w EXCEPT !.p.frameLoopRef = "null", !.p.frameCbs = Max(0, @ - 1)]
    ELSE [w EXCEPT !.p.frameLoopRef = "null", !.p.frameOld = Max(0, @ - 1)]

scheduleFrameLoop(w) ==
    IF w.v.paused \/ Ended(w.v) THEN w
    ELSE [w EXCEPT !.p.frameLoopRef = "cur", !.p.frameCbs = @ + 1]

cancelTimeUpdate(w) ==
    IF w.p.timeUpdateRef = "null" THEN w
    ELSE IF w.p.timeUpdateRef = "cur"
    THEN [w EXCEPT !.p.timeUpdateRef = "null", !.p.timeCbs = Max(0, @ - 1)]
    ELSE [w EXCEPT !.p.timeUpdateRef = "null", !.p.timeOld = Max(0, @ - 1)]

scheduleTimeUpdate(w) ==
    IF w.p.timeUpdateRef # "null" THEN w
    ELSE IF w.v.paused \/ Ended(w.v) THEN w
    ELSE [w EXCEPT !.p.timeUpdateRef = "cur", !.p.timeCbs = @ + 1]


----------------------------------------------------------------------------
(* useCanvasPlayer: the transport operations *)

\* The continuation of a togglePlayback that sets the playing flag and
\* starts the render loop only when the element is at its start
playResolved_late(w) ==
    LET w1 == [w EXCEPT !.v.play = @ - 1] IN
    IF w.v.time = 0
    THEN scheduleFrameLoop(cancelFrameLoop(
             [w1 EXCEPT !.p.isPlaying = TRUE,
                        !.p.lastMediaTimeRef = w.v.time]))
    ELSE w1

\* The continuation of togglePlayback after "await video.play()" succeeded
playResolved(w) ==
    LET w1 == [w EXCEPT !.v.play = @ - 1,
                        !.p.isPlaying = TRUE,
                        !.p.lastMediaTimeRef = w.v.time]
    IN  scheduleFrameLoop(cancelFrameLoop(w1))

\* togglePlayback that reports playing before play() has answered
togglePlayback_eager(w, allowed) ==
    IF w.p.videoSource = 0 THEN w
    ELSE IF w.v.paused \/ Ended(w.v)
    THEN LET w1 == [w EXCEPT !.p.forcedTimeRef = Null,
                             !.p.isPlaying = TRUE,
                             !.h.pausedAt = Null,
                             !.h.seekedWhileForced = FALSE]
         IN  IF allowed THEN play(w1) ELSE [w1 EXCEPT !.h.denied = ~@]
    ELSE cancelTimeUpdate(cancelFrameLoop(
             [pause(w) EXCEPT !.p.isPlaying = FALSE,
                              !.h.pausedAt = Null,
                              !.h.seekedWhileForced = FALSE]))

\* togglePlayback up to its await; allowed is the host's answer to play().
\* A rejected play() runs the catch block, which changes no state; the
\* history flips denied at each rejection.
togglePlayback(w, allowed) ==
    IF w.p.videoSource = 0 THEN w
    ELSE IF w.v.paused \/ Ended(w.v)
    THEN LET w1 == [w EXCEPT !.p.forcedTimeRef = Null, !.h.pausedAt = Null, !.h.seekedWhileForced = FALSE]
         IN  IF allowed THEN play(w1) ELSE [w1 EXCEPT !.h.denied = ~@]
    ELSE cancelTimeUpdate(cancelFrameLoop(
             [pause(w) EXCEPT !.p.isPlaying = FALSE, !.h.pausedAt = Null, !.h.seekedWhileForced = FALSE]))

pausePlayback(w) ==
    cancelTimeUpdate(cancelFrameLoop(
        [pause(w) EXCEPT !.p.isPlaying = FALSE, !.h.pausedAt = Null, !.h.seekedWhileForced = FALSE,
                         !.p.lastMediaTimeRef = -1]))

pauseAt(w, value, lag) ==
    IF w.p.videoSource = 0 THEN w
    ELSE LET max == IF w.v.ready THEN w.v.dur ELSE value
             clamped == Max(0, Min(value, max))
             w1 == [pause(w) EXCEPT !.p.forcedTimeRef = Some(clamped),
                                    !.p.isPlaying = FALSE]
             w2 == seek(cancelTimeUpdate(cancelFrameLoop(w1)), clamped, lag)
             w3 == setCurrentTime(w2, clamped)
         IN  [w3 EXCEPT !.p.lastTimeUpdateValueRef = clamped,
                        !.p.lastMediaTimeRef = clamped,
                        !.h.pauseAtCalls = Min(MaxCount, @ + 1),
                        !.h.pausedAt = Some(clamped),
                        !.h.seekedWhileForced = FALSE]

\* scrub that moves by value from the published time
scrub_relative(w, value, lag, throws) ==
    IF w.p.videoSource = 0 THEN w
    ELSE LET t == w.p.currentTime + value
             w1 == [w EXCEPT !.p.forcedTimeRef =
                        IF ~w.v.ready /\ throws THEN Some(t) ELSE Null,
                             !.h.pausedAt = Null, !.h.seekedWhileForced = FALSE]
             w2 == setCurrentTime(seek(w1, t, lag), t)
         IN  [w2 EXCEPT !.p.lastTimeUpdateValueRef = t,
                        !.p.lastMediaTimeRef = t]

\* scrub that pauses the element and stops the loops before it seeks
scrub_pausing(w, value, lag, throws) ==
    IF w.p.videoSource = 0 THEN w
    ELSE LET w0 == cancelTimeUpdate(cancelFrameLoop(
                       [pause(w) EXCEPT !.p.isPlaying = FALSE]))
             w1 == [w0 EXCEPT !.p.forcedTimeRef =
                        IF ~w.v.ready /\ throws THEN Some(value) ELSE Null,
                             !.h.pausedAt = Null, !.h.seekedWhileForced = FALSE]
             w2 == setCurrentTime(seek(w1, value, lag), value)
         IN  [w2 EXCEPT !.p.lastTimeUpdateValueRef = value,
                        !.p.lastMediaTimeRef = value]

\* throws: the host raises on a seek before the metadata is there
scrub(w, value, lag, throws) ==
    IF w.p.videoSource = 0 THEN w
    ELSE LET w1 == [w EXCEPT !.p.forcedTimeRef =
                        IF ~w.v.ready /\ throws THEN Some(value) ELSE Null,
                             !.h.pausedAt = Null, !.h.seekedWhileForced = FALSE]
             w2 == setCurrentTime(seek(w1, value, lag), value)
         IN  [w2 EXCEPT !.p.lastTimeUpdateValueRef = value,
                        !.p.lastMediaTimeRef = value]

----------------------------------------------------------------------------
(* useCanvasPlayer: the media event handlers *)

\* handleLoadedMetadata that starts every source at 0
handleLoadedMetadata_fresh(w) ==
    LET d == SourceDuration(w.v.src)
        w0 == resizeCanvas([w EXCEPT !.v.ready = TRUE, !.v.dur = d,
                                     !.v.videoWidth = SourceSize(w.v.src)[1],
                                     !.v.videoHeight = SourceSize(w.v.src)[2]],
                           SourceSize(w.v.src)[1], SourceSize(w.v.src)[2])
        w1 == [w0 EXCEPT !.p.duration = d, !.p.forcedTimeRef = Null]
        w2 == [setCurrentTime(w1, 0) EXCEPT !.p.lastTimeUpdateValueRef = 0]
    IN  pause(seek(w2, 0, FALSE))

handleLoadedMetadata(w) ==
    LET d == SourceDuration(w.v.src)
        w0 == resizeCanvas([w EXCEPT !.v.ready = TRUE, !.v.dur = d,
                                     !.v.videoWidth = SourceSize(w.v.src)[1],
                                     !.v.videoHeight = SourceSize(w.v.src)[2]],
                           SourceSize(w.v.src)[1], SourceSize(w.v.src)[2])
        initialTime == OrElse(w.p.forcedTimeRef, 0)
        w1 == [w0 EXCEPT !.p.duration = d, !.p.forcedTimeRef = Null]
        w2 == [setCurrentTime(w1, initialTime)
               EXCEPT !.p.lastTimeUpdateValueRef = initialTime]
    IN  pause(seek(w2, initialTime, FALSE))

\* handleTimeUpdate that publishes the media position whatever forcedTime is
handleTimeUpdate_raw(w) ==
    IF w.p.isPlayingRef THEN w
    ELSE [setCurrentTime(w, w.v.time) EXCEPT !.p.lastTimeUpdateValueRef = w.v.time]

handleTimeUpdate(w) ==
    IF w.p.isPlayingRef THEN w
    ELSE LET t == OrElse(w.p.forcedTimeRef, w.v.time)
         IN  [setCurrentTime(w, t) EXCEPT !.p.lastTimeUpdateValueRef = t]

\* handleSeeked that clears forcedTime without the convergence test
handleSeeked_eager(w) ==
    [setCurrentTime(w, w.v.time)
     EXCEPT !.p.forcedTimeRef = Null,
            !.p.lastTimeUpdateValueRef = w.v.time]

handleSeeked(w) ==
    IF ~IsNull(w.p.forcedTimeRef)
    THEN LET forced == w.p.forcedTimeRef[1] IN
         IF Abs(w.v.time - forced) <= SeekEpsilon
         THEN [setCurrentTime(w, w.v.time)
               EXCEPT !.p.forcedTimeRef = Null,
                      !.p.lastTimeUpdateValueRef = w.v.time]
         ELSE [setCurrentTime(w, forced)
               EXCEPT !.p.lastTimeUpdateValueRef = forced,
                      !.h.seekedWhileForced = TRUE]
    ELSE [setCurrentTime(w, w.v.time)
          EXCEPT !.p.lastTimeUpdateValueRef = w.v.time]

\* handleEnded that leaves the state-publish loop to stop by itself
handleEnded_lazy(w) ==
    cancelFrameLoop([w EXCEPT !.p.isPlaying = FALSE,
                              !.p.lastMediaTimeRef = -1])

handleEnded(w) ==
    cancelFrameLoop(cancelTimeUpdate([w EXCEPT !.p.isPlaying = FALSE,
                                               !.p.lastMediaTimeRef = -1]))

stopAndUnload(w) ==
    LET w1 == cancelTimeUpdate(cancelFrameLoop(w))
        w2 == [w1 EXCEPT !.p.forcedTimeRef = Null,
                         !.h.pausedAt = Null, !.h.seekedWhileForced = FALSE,
                         !.p.isPlayingRef = FALSE,
                         !.p.lastTimeUpdateValueRef = 0,
                         !.p.lastMediaTimeRef = -1,
                         !.p.isPlaying = FALSE,
                         !.p.duration = 0]
        w3 == pause(setCurrentTime(w2, 0))
    IN  IF w3.v.src # 0 THEN [w3 EXCEPT !.v = NewVideo(0)] ELSE w3

\* The effect on [videoSource] that keeps the time and the duration of the
\* previous source
videoSourceEffect_stale(w) ==
    IF w.p.videoSource = 0 THEN stopAndUnload(w)
    ELSE LET w1 == cancelTimeUpdate(cancelFrameLoop(w))
             w2 == [w1 EXCEPT !.p.forcedTimeRef = Null,
                              !.h.pausedAt = Null, !.h.seekedWhileForced = FALSE,
                              !.p.isPlayingRef = FALSE,
                              !.p.isPlaying = FALSE,
                              !.p.lastTimeUpdateValueRef = 0,
                              !.p.lastMediaTimeRef = -1]
             w3 == pause(w2)
         IN  load([seek(w3, 0, FALSE) EXCEPT !.v.src = w.p.videoSource])

\* The effect on [videoSource]: reset the derived state and load the source
videoSourceEffect(w) ==
    IF w.p.videoSource = 0 THEN stopAndUnload(w)
    ELSE LET w1 == cancelTimeUpdate(cancelFrameLoop(w))
             w2 == [w1 EXCEPT !.p.forcedTimeRef = Null,
                              !.h.pausedAt = Null, !.h.seekedWhileForced = FALSE,
                              !.p.isPlayingRef = FALSE,
                              !.p.isPlaying = FALSE,
                              !.p.duration = 0,
                              !.p.lastTimeUpdateValueRef = 0,
                              !.p.lastMediaTimeRef = -1]
             w3 == pause(setCurrentTime(w2, 0))
         IN  load([seek(w3, 0, FALSE) EXCEPT !.v.src = w.p.videoSource])

\* The effect on [isPlaying], run for the rendered value rp
isPlayingEffect(w, rp) ==
    LET w1 == cancelTimeUpdate([w EXCEPT !.p.isPlayingRef = rp])
    IN  IF rp THEN scheduleTimeUpdate(w1) ELSE w1

----------------------------------------------------------------------------
(* CanvasPreview: the trim and loop controller *)

\* The body of the effect that owns the playhead tick, run (after its
\* cleanup) for the rendered isPlaying rp and duration rd
trimEffect(w, rp, rd) ==
    IF rd = 0
    THEN [w EXCEPT !.c.tickPending = FALSE]
    ELSE IF ~rp
    THEN [w EXCEPT !.c.tickPending = FALSE, !.c.stopLockRef = FALSE]
    ELSE [w EXCEPT !.c.stopLockRef = FALSE,
                   !.c.lastPlayheadRef = w.v.time,
                   !.c.tickPending = TRUE,
                   !.h.pauseAtCalls = 0, !.h.signals = 0,
                   !.h.crossings = 0, !.h.wraps = 0]

\* tick whose looping branch does not scrub back to the in point
tick_overrun(w, lag, throws) ==
    LET actualTime == w.v.time
        lastTime == w.c.lastPlayheadRef
        delta == actualTime - lastTime
        displayTime == IF Abs(delta) > ResyncDelta THEN actualTime
                       ELSE IF delta < -BackDrift THEN lastTime
                       ELSE actualTime
        w1 == [w EXCEPT !.c.lastPlayheadRef = displayTime]
    IN  IF w.c.trimEnd > 0 /\ displayTime >= w.c.trimEnd - TrimEpsilon
        THEN IF w.c.isLooping
             THEN [w1 EXCEPT !.h.wraps = Min(MaxCount, @ + 1)]
             ELSE IF ~w.c.stopLockRef
             THEN [pauseAt([w1 EXCEPT !.c.stopLockRef = TRUE], w.c.trimEnd, lag)
                   EXCEPT !.c.lastPlayheadRef = w.c.trimEnd,
                          !.c.tickPending = FALSE,
                          !.h.crossings = Min(MaxCount, @ + 1),
                          !.h.signals = Min(MaxCount, @ + 1)]
             ELSE [w1 EXCEPT !.c.tickPending = FALSE,
                             !.h.crossings = Min(MaxCount, @ + 1)]
        ELSE w1

\* tick without the one-shot lock and without the return that ends the loop
tick_unlocked(w, lag, throws) ==
    LET actualTime == w.v.time
        lastTime == w.c.lastPlayheadRef
        delta == actualTime - lastTime
        displayTime == IF Abs(delta) > ResyncDelta THEN actualTime
                       ELSE IF delta < -BackDrift THEN lastTime
                       ELSE actualTime
        w1 == [w EXCEPT !.c.lastPlayheadRef = displayTime]
    IN  IF w.c.trimEnd > 0 /\ displayTime >= w.c.trimEnd - TrimEpsilon
        THEN IF w.c.isLooping
             THEN [scrub(w1, w.c.trimStart, lag, throws)
                   EXCEPT !.c.lastPlayheadRef = w.c.trimStart,
                          !.h.wraps = Min(MaxCount, @ + 1)]
             ELSE [pauseAt(w1, w.c.trimEnd, lag)
                   EXCEPT !.c.lastPlayheadRef = w.c.trimEnd,
                          !.h.crossings = Min(MaxCount, @ + 1),
                          !.h.signals = Min(MaxCount, @ + 1)]
        ELSE w1

\* A tick that ignores every backward move of the media time
tick_forward(w, lag, throws) ==
    LET actualTime == w.v.time
        lastTime == w.c.lastPlayheadRef
        delta == actualTime - lastTime
        displayTime == IF Abs(delta) > ResyncDelta THEN actualTime
                       ELSE IF delta < 0 THEN lastTime
                       ELSE actualTime
        w1 == [w EXCEPT !.c.lastPlayheadRef = displayTime]
    IN  IF w.c.trimEnd > 0 /\ displayTime >= w.c.trimEnd - TrimEpsilon
        THEN IF w.c.isLooping
             THEN [scrub(w1, w.c.trimStart, lag, throws)
                   EXCEPT !.c.lastPlayheadRef = w.c.trimStart,
                          !.h.wraps = Min(MaxCount, @ + 1)]
             ELSE IF ~w.c.stopLockRef
             THEN [pauseAt([w1 EXCEPT !.c.stopLockRef = TRUE], w.c.trimEnd, lag)
                   EXCEPT !.c.lastPlayheadRef = w.c.trimEnd,
                          !.c.tickPending = FALSE,
                          !.h.crossings = Min(MaxCount, @ + 1),
                          !.h.signals = Min(MaxCount, @ + 1)]
             ELSE [w1 EXCEPT !.c.tickPending = FALSE,
                             !.h.crossings = Min(MaxCount, @ + 1)]
        ELSE w1

\* One run of tick, the animation-frame callback of the trim effect.  The
\* history counts the ticks that saw the out point with looping off
\* (crossings), the end cues they requested (signals) and the ticks that
\* wrapped to the in point (wraps), since the tick loop was started.
tick(w, lag, throws) ==
    LET actualTime == w.v.time
        lastTime == w.c.lastPlayheadRef
        delta == actualTime - lastTime
        displayTime == IF Abs(delta) > ResyncDelta THEN actualTime
                       ELSE IF delta < -BackDrift THEN lastTime
                       ELSE actualTime
        w1 == [w EXCEPT !.c.lastPlayheadRef = displayTime]
    IN  IF w.c.trimEnd > 0 /\ displayTime >= w.c.trimEnd - TrimEpsilon
        THEN IF w.c.isLooping
             THEN [scrub(w1, w.c.trimStart, lag, throws)
                   EXCEPT !.c.lastPlayheadRef = w.c.trimStart,
                          !.h.wraps = Min(MaxCount, @ + 1)]
             ELSE IF ~w.c.stopLockRef
             THEN [pauseAt([w1 EXCEPT !.c.stopLockRef = TRUE], w.c.trimEnd, lag)
                   EXCEPT !.c.lastPlayheadRef = w.c.trimEnd,
                          !.c.tickPending = FALSE,
                          !.h.crossings = Min(MaxCount, @ + 1),
                          !.h.signals = Min(MaxCount, @ + 1)]
             ELSE [w1 EXCEPT !.c.tickPending = FALSE,
                             !.h.crossings = Min(MaxCount, @ + 1)]
        ELSE w1

\* A render with its effects, for the state set since the last one.  The
\* effects run in the order of their declaration: the hook's, then the
\* trim reset, the trim effect and the paused-playhead effect.
commit(w) ==
    LET rp == w.p.isPlaying
        rd == w.p.duration
        w1 == IF rp # w.p.rPlaying THEN isPlayingEffect(w, rp) ELSE w
        w2 == IF rd # w.p.rDuration /\ rd # 0
              THEN [w1 EXCEPT !.c.trimStart = 0, !.c.trimEnd = rd]
              ELSE w1
        w3 == trimEffect(w2, rp, rd)
        w4 == IF ~rp
              THEN [w3 EXCEPT !.c.lastPlayheadRef = w.p.currentTime]
              ELSE w3
    IN  [w4 EXCEPT !.p.rPlaying = rp, !.p.rDuration = rd]

\* The commit of the render in which the videoSource prop changes to s:
\* React unmounts the <video key={videoSource}> element and mounts a new
\* one, to which videoRef now points.  The callbacks that the loops
\* requested stay with the host, for the replaced element, and the effects
\* of the render are still to run.
mountSource(w, s) ==
    [w EXCEPT !.v = NewVideo(s),
              !.p.videoSource = s,
              !.p.frameOld = Min(MaxCount, @ + w.p.frameCbs),
              !.p.frameCbs = 0,
              !.p.frameLoopRef = IF @ = "cur" THEN "old" ELSE @,
              !.p.timeOld = Min(MaxCount, @ + w.p.timeCbs),
              !.p.timeCbs = 0,
              !.p.timeUpdateRef = IF @ = "cur" THEN "old" ELSE @,
              !.p.effectsPending = TRUE]

\* The effects of that render, which depend on the source, with the values
\* of the render
passiveEffects(w) ==
    LET rp == w.p.isPlaying
        rd == w.p.duration
        w1 == IF rp # w.p.rPlaying THEN isPlayingEffect(w, rp) ELSE w
        w2 == videoSourceEffect(w1)
        w3 == IF rd # 0
              THEN [w2 EXCEPT !.c.trimStart = 0, !.c.trimEnd = rd]
              ELSE w2
        w4 == trimEffect(w3, rp, rd)
    IN  [w4 EXCEPT !.c.stopLockRef = FALSE,
                   !.c.lastPlayheadRef = 0,
                   !.c.tickPending = FALSE,
                   !.p.rPlaying = rp,
                   !.p.rDuration = rd,
                   !.p.effectsPending = FALSE]

\* The render in which the videoSource prop changes to s, when React runs
\* its effects in the same task as the commit
swapSource(w, s) == passiveEffects(mountSource(w, s))

\* updateTrimFromClient that keeps the handles in order but no gap
updateTrimFromClient_free(w, type, time, lag) ==
    IF w.p.rDuration = 0 THEN w
    ELSE LET duration == w.p.rDuration
         IN  IF type = "start"
             THEN LET next == Min(time, w.c.trimEnd)
                      w1 == [w EXCEPT !.c.trimStart = Max(0, next)]
                  IN  IF w.p.currentTime < next
                      THEN scrub(w1, next, lag, FALSE) ELSE w1
             ELSE LET next == Max(time, w.c.trimStart)
                      w1 == [w EXCEPT !.c.trimEnd = Min(duration, next)]
                  IN  IF w.p.currentTime > next
                      THEN scrub(w1, next, lag, FALSE) ELSE w1

\* updateTrimFromClient for a pointer at time (ratio * duration)
updateTrimFromClient(w, type, time, lag) ==
    IF w.p.rDuration = 0 THEN w
    ELSE LET duration == w.p.rDuration
             minGap == Min(MaxMinGap, (duration * 2) \div 100)
         IN  IF type = "start"
             THEN LET next == Min(time, w.c.trimEnd - minGap)
                      w1 == [w EXCEPT !.c.trimStart = Max(0, next)]
                  IN  IF w.p.currentTime < next
                      THEN scrub(w1, next, lag, FALSE) ELSE w1
             ELSE LET next == Max(time, w.c.trimStart + minGap)
                      w1 == [w EXCEPT !.c.trimEnd = Min(duration, next)]
                  IN  IF w.p.currentTime > next
                      THEN scrub(w1, next, lag, FALSE) ELSE w1

\* stopAll, the handler given to onStopReady
stopAll(w) ==
    [pausePlayback(w) EXCEPT !.c.tickPending = FALSE, !.c.stopLockRef = FALSE]

\* The component is removed: React runs the cleanup of every effect (the
\* hook's teardown that cancels both loops, the source effect's that pauses
\* and unloads the element, the trim effect's that cancels the tick, the
\* timers') and discards the element
unmount(w) ==
    LET w1 == cancelTimeUpdate(cancelFrameLoop(w))
        w2 == pause(w1)
        w3 == [w2 EXCEPT !.v = NewVideo(0)]
    IN  [w3 EXCEPT !.c.tickPending = FALSE,
                   !.e.timer = FALSE,
                   !.p.mounted = FALSE]

\* The play button: scrub to the trim start when the render is paused,
\* then togglePlayback
clickPlay(w, allowed, lag) ==
    LET w1 == IF ~w.p.rPlaying /\ w.p.rDuration # 0
              THEN scrub(w, w.c.trimStart, lag, FALSE) ELSE w
    IN  togglePlayback(w1, allowed)

----------------------------------------------------------------------------
(* CanvasPreview: the export capturer *)

\* updateExportState
updateExportState(w, status, progress, message) ==
    [w EXCEPT !.e.status = status, !.e.progress = progress,
              !.e.message = message]

\* Math.round((currentTime / duration) * 70), capped at 70
RenderProgress(t, d) == Min(70, (2 * t * 70 + d) \div (2 * d))

\* The run's timeupdate listener
exportTimeUpdate(w) ==
    IF ~w.e.listening \/ w.e.duration = 0 THEN w
    ELSE updateExportState(w, "exporting",
                           RenderProgress(w.v.time, w.e.duration), "Rendering")

\* The run's ended listener: recorder.stop() when the recorder is active
exportEnded(w) ==
    IF w.e.listening /\ w.e.stage = "recording"
    THEN [w EXCEPT !.e.stage = "stopping"]
    ELSE w

\* cleanup of a run
cleanup(w) == [w EXCEPT !.e.listening = FALSE, !.e.timer = FALSE]

\* The finally block of handleStop
restore(w, allowed) ==
    LET w1 == scrub(w, w.e.resumeTime, FALSE, FALSE)
        w2 == IF w.e.wasPlaying THEN togglePlayback(w1, allowed) ELSE w1
    IN  [w2 EXCEPT !.e.stage = "none"]

\* handleStop up to the request for a signature
handleStop(w) ==
    [updateExportState(cleanup(w), "exporting", 70, "Uploading")
     EXCEPT !.e.stage = "signing"]

\* handleStop after the signature request: ok is its outcome
signed(w, ok, allowed) ==
    IF ok THEN [w EXCEPT !.e.stage = "uploading"]
    ELSE restore([updateExportState(w, "error", 0, "sign")
                  EXCEPT !.h.failed = TRUE], allowed)

\* xhr.upload.onprogress with Math.round(loaded / total * 30) = percent
uploadProgress(w, percent) ==
    updateExportState(w, "exporting", 70 + percent, "Uploading")

\* handleStop after the upload: ok is its outcome
uploaded(w, ok, allowed) ==
    IF ok
    THEN restore([updateExportState(w, "done", 100, "none")
                  EXCEPT !.e.timer = TRUE], allowed)
    ELSE restore([updateExportState(w, "error", 0, "upload")
                  EXCEPT !.h.failed = TRUE], allowed)

\* recorder.onerror; stops says whether the host delivers the recorder's
\* stop event after the error event
recorderError(w, stops) ==
    [updateExportState(cleanup(w), "error", 0, "failed")
     EXCEPT !.e.stage = IF stops THEN "stopping" ELSE "none",
            !.h.failed = TRUE]

\* The timer set when a run is done
resetTimer(w) ==
    [updateExportState(w, "idle", 0, "none") EXCEPT !.e.timer = FALSE]

\* What the host offers to an export: the MediaRecorder constructor,
\* canvas.captureStream, and a recording mime type of the preference list
\* that MediaRecorder.isTypeSupported accepts
Hosts == [recorder : BOOLEAN, capture : BOOLEAN, mime : BOOLEAN]

FullHost == [recorder |-> TRUE, capture |-> TRUE, mime |-> TRUE]

\* exportCut without the test of the export status
exportCut_unguarded(w, host, allowed) ==
    LET w0 == [w EXCEPT !.h.ignored = IF w.e.status = "exporting" THEN ~@ ELSE @]
    IN
    IF ~host.recorder
    THEN updateExportState(w0, "error", 0, "unsupported")
    ELSE IF ~host.capture
    THEN w0
    ELSE LET w1 == [updateExportState(w0, "exporting", 0, "Rendering")
                    EXCEPT !.e.stage = "recording",
                           !.e.listening = TRUE,
                           !.e.wasPlaying = ~w.v.paused /\ ~Ended(w.v),
                           !.e.resumeTime = w.v.time,
                           !.e.duration = w.v.dur,
                           !.h.failed = FALSE]
             w2 == scrub(w1, 0, FALSE, FALSE)
         IN  IF w2.v.paused THEN togglePlayback(w2, allowed) ELSE w2

\* exportCut on a host.  Without MediaRecorder it reports the error; without
\* canvas.captureStream the call of line 227 raises and the function ends
\* there; without a supported mime type of the list the recorder is made
\* with the host's default type and the run goes on.  The history flips
\* ignored at every call made in the exporting status and notes in failed
\* whether a stage of the latest run failed.
exportCut(w, host, allowed) ==
    IF w.e.status = "exporting"
    THEN [w EXCEPT !.h.ignored = ~@]
    ELSE IF ~host.recorder
    THEN updateExportState(w, "error", 0, "unsupported")
    ELSE IF ~host.capture
    THEN w
    ELSE LET w1 == [updateExportState(w, "exporting", 0, "Rendering")
                    EXCEPT !.e.stage = "recording",
                           !.e.listening = TRUE,
                           !.e.wasPlaying = ~w.v.paused /\ ~Ended(w.v),
                           !.e.resumeTime = w.v.time,
                           !.e.duration = w.v.dur,
                           !.h.failed = FALSE]
             w2 == scrub(w1, 0, FALSE, FALSE)
         IN  IF w2.v.paused THEN togglePlayback(w2, allowed) ELSE w2

----------------------------------------------------------------------------
(* The scheduler loops *)

\* A render loop whose callback goes on when the element has ended
frameLoop_eager(w) ==
    LET w1 == [w EXCEPT !.p.frameCbs = @ - 1] IN
    IF w.v.paused
    THEN [w1 EXCEPT !.p.frameLoopRef = "null"]
    ELSE [w1 EXCEPT !.p.frameLoopRef = "cur",
                    !.p.frameCbs = @ + 1,
                    !.p.lastMediaTimeRef = w.v.time]

\* A render loop that requests its next callback only when the media
\* position has changed
frameLoop_once(w) ==
    LET w1 == [w EXCEPT !.p.frameCbs = @ - 1] IN
    IF w.v.paused \/ Ended(w.v)
    THEN [w1 EXCEPT !.p.frameLoopRef = "null"]
    ELSE IF w.v.time = w.p.lastMediaTimeRef
    THEN [w1 EXCEPT !.p.frameLoopRef = "null"]
    ELSE [w1 EXCEPT !.p.frameLoopRef = "cur",
                    !.p.frameCbs = @ + 1,
                    !.p.lastMediaTimeRef = w.v.time]

\* One callback of the render loop requested for the mounted element.
\* Times are whole centiseconds, so that a media position within 0.0005 s
\* of lastMediaTimeRef is one equal to it: the callback then requests the
\* next one and returns; otherwise it records the position, draws when
\* 33 ms have passed since the last draw (frameDraws) and requests the next
frameLoop(w) ==
    LET w1 == [w EXCEPT !.p.frameCbs = @ - 1] IN
    IF w.v.paused \/ Ended(w.v)
    THEN [w1 EXCEPT !.p.frameLoopRef = "null"]
    ELSE IF w.v.time = w.p.lastMediaTimeRef
    THEN [w1 EXCEPT !.p.frameLoopRef = "cur",
                    !.p.frameCbs = @ + 1]
    ELSE [w1 EXCEPT !.p.frameLoopRef = "cur",
                    !.p.frameCbs = @ + 1,
                    !.p.lastMediaTimeRef = w.v.time]

\* Whether that callback calls drawFrame; due says whether 33 ms have
\* passed since the last draw
frameDraws(w, due) ==
    /\ ~(w.v.paused \/ Ended(w.v))
    /\ w.v.time # w.p.lastMediaTimeRef
    /\ due

\* One callback of the state-publish loop; due says whether 33 ms have
\* passed since the last publish
timeLoop(w, due) ==
    LET w1 == [w EXCEPT !.p.timeCbs = @ - 1] IN
    IF w.v.paused \/ Ended(w.v)
    THEN [w1 EXCEPT !.p.timeUpdateRef = "null"]
    ELSE LET current == OrElse(w.p.forcedTimeRef, w.v.time)
             w2 == IF due /\ current # w.p.lastTimeUpdateValueRef
                   THEN [setCurrentTime(w1, current)
                         EXCEPT !.p.lastTimeUpdateValueRef = current]
                   ELSE w1
         IN  [w2 EXCEPT !.p.timeUpdateRef = "cur", !.p.timeCbs = @ + 1]

----------------------------------------------------------------------------
(* EditorApp: the sequencer *)

\* A clip's duration taken to be its out point
ClipDuration_out(clip) == Max(0, clip.outPoint)

\* A clip of the timeline; its id is its place in the sequence
ClipDuration(clip) == Max(0, clip.outPoint - clip.inPoint)

\* sequenceWithTiming: the start of clip i is the sum of the durations
\* of the clips before it
RECURSIVE ClipStart(_, _)
ClipStart(seq, i) ==
    IF i <= 1 THEN 0 ELSE ClipStart(seq, i - 1) + ClipDuration(seq[i - 1])

sequenceDuration(seq) == ClipStart(seq, Len(seq) + 1)

\* activeClip: the index of the clip named by activeClipId, else of the
\* first clip, else 0 (null)
activeClip(g) ==
    IF Len(g.sequence) = 0 THEN 0
    ELSE IF g.activeClipId \in 1..Len(g.sequence) THEN g.activeClipId
    ELSE 1

\* getClipAtTime with a range closed at its end
getClipAtTime_closed(seq, time) ==
    LET safeTime == Max(0, time)
        hits == {i \in 1..Len(seq) :
                   /\ safeTime >= ClipStart(seq, i)
                   /\ safeTime <= ClipStart(seq, i) + ClipDuration(seq[i])}
    IN  IF hits # {} THEN CHOOSE i \in hits : \A j \in hits : i <= j
        ELSE Len(seq)

\* getClipAtTime: the first clip whose range holds the time, else the last
getClipAtTime(seq, time) ==
    LET safeTime == Max(0, time)
        hits == {i \in 1..Len(seq) :
                   /\ safeTime >= ClipStart(seq, i)
                   /\ safeTime < ClipStart(seq, i) + ClipDuration(seq[i])}
    IN  IF hits # {} THEN CHOOSE i \in hits : \A j \in hits : i <= j
        ELSE Len(seq)

\* The scrub that the preview handed to the page: it closes over the
\* videoSource of the render that made it and acts on the mounted element
scrubHandler(w, value, throws) ==
    IF w.g.scrubHandlerRef[1] = 0 THEN w
    ELSE [scrub([w EXCEPT !.p.videoSource = w.g.scrubHandlerRef[1]],
                value, FALSE, throws)
          EXCEPT !.p.videoSource = w.p.videoSource]

requestSeek(w, time, throws) ==
    IF ~IsNull(w.g.scrubHandlerRef)
    THEN scrubHandler(w, time, throws)
    ELSE [w EXCEPT !.g.pendingSeekRef = Some(time)]

\* handleScrubReady for the scrub of a render with videoSource s
handleScrubReady(w, s, throws) ==
    LET w1 == [w EXCEPT !.g.scrubHandlerRef = Some(s)] IN
    IF ~IsNull(w.g.pendingSeekRef)
    THEN [scrubHandler(w1, w.g.pendingSeekRef[1], throws)
          EXCEPT !.g.pendingSeekRef = Null]
    ELSE w1

\* The command surface the preview hands to the page (playbackRef): play
\* requests playback of a paused transport, pause pauses it
playControl(w, allowed) ==
    IF w.v.paused \/ Ended(w.v) THEN togglePlayback(w, allowed) ELSE w

pauseControl(w) == pausePlayback(w)

\* An asset of the library: its public_id names its source; its duration
\* is the one the library recorded, or is missing.  Catalogued is a library
\* that recorded every duration; Assets one that did so for the first
\* asset only.
Catalogued ==
    {[public_id |-> s, duration |-> Some(SourceDuration(s))] : s \in Sources}

Assets ==
    {[public_id |-> s,
      duration |-> IF s = 1 THEN Some(SourceDuration(s)) ELSE Null] :
        s \in Sources}

getAssetDuration(asset) == OrElse(asset.duration, DefaultDuration)

handleAddToTimeline(w, asset) ==
    LET nextClip == [assetId |-> asset.public_id, inPoint |-> 0,
                     outPoint |-> getAssetDuration(asset)]
        w1 == [w EXCEPT !.g.sequence = Append(@, nextClip), !.g.dirty = TRUE]
    IN  IF w.g.activeClipId = 0
        THEN [w1 EXCEPT !.g.activeClipId = Len(w.g.sequence) + 1,
                        !.g.activeVideo = asset.public_id]
        ELSE w1

\* selectClip for the clip at place clip of the sequence
selectClip(w, clip, throws) ==
    LET seq == w.g.sequence
        w1 == [w EXCEPT !.g.dirty = TRUE]
        seekAndPlace(x) ==
            [requestSeek(x, seq[clip].inPoint, throws)
             EXCEPT !.g.timelineTime = ClipStart(seq, clip)]
    IN  IF clip = w.g.activeClipId THEN seekAndPlace(w1)
        ELSE IF w.g.activeVideo = seq[clip].assetId
        THEN seekAndPlace([w1 EXCEPT !.g.sequencePlayRef = FALSE,
                                     !.g.activeClipId = clip])
        ELSE seekAndPlace([stopAll(w1)
                           EXCEPT !.g.sequencePlayRef = FALSE,
                                  !.g.activeClipId = clip,
                                  !.g.activeVideo = seq[clip].assetId])

\* handleTimelineScrub: the time set first is replaced by the start of the
\* clip when selectClip runs in the same handler
handleTimelineScrub(w, time, throws) ==
    IF Len(w.g.sequence) = 0 THEN w
    ELSE LET seq == w.g.sequence
             clip == getClipAtTime(seq, time)
             offset == Max(0, time - ClipStart(seq, clip))
             w1 == [w EXCEPT !.g.sequencePlayRef = FALSE,
                             !.g.timelineTime = time,
                             !.g.dirty = TRUE]
             w2 == IF clip # w.g.activeClipId
                   THEN selectClip(w1, clip, throws) ELSE w1
         IN  requestSeek(w2, seq[clip].inPoint + offset, throws)

\* handleSplitClip that splits at any offset inside the clip
handleSplitClip_anywhere(w) ==
    IF Len(w.g.sequence) = 0 THEN w
    ELSE LET seq == w.g.sequence
             target == getClipAtTime(seq, w.g.timelineTime)
             offset == w.g.timelineTime - ClipStart(seq, target)
         IN  IF ClipDuration(seq[target]) = 0 THEN w
             ELSE IF offset <= 0 \/ offset >= ClipDuration(seq[target]) THEN w
             ELSE LET splitPoint == seq[target].inPoint + offset
                      first == [seq[target] EXCEPT !.outPoint = splitPoint]
                      second == [seq[target] EXCEPT !.inPoint = splitPoint]
                  IN  [w EXCEPT !.g.sequence =
                                   SubSeq(seq, 1, target - 1)
                                   \o <<first, second>>
                                   \o SubSeq(seq, target + 1, Len(seq)),
                                !.g.activeClipId = target + 1,
                                !.g.dirty = TRUE]

\* handleSplitClip: the two new clips take the place of the clip under the
\* timeline time, and the second becomes the active clip
handleSplitClip(w) ==
    IF Len(w.g.sequence) = 0 THEN w
    ELSE LET seq == w.g.sequence
             target == getClipAtTime(seq, w.g.timelineTime)
             offset == w.g.timelineTime - ClipStart(seq, target)
         IN  IF ClipDuration(seq[target]) = 0 THEN w
             ELSE IF offset <= SplitMargin
                     \/ offset >= ClipDuration(seq[target]) - SplitMargin
             THEN w
             ELSE LET splitPoint == seq[target].inPoint + offset
                      first == [seq[target] EXCEPT !.outPoint = splitPoint]
                      second == [seq[target] EXCEPT !.inPoint = splitPoint]
                  IN  [w EXCEPT !.g.sequence =
                                   SubSeq(seq, 1, target - 1)
                                   \o <<first, second>>
                                   \o SubSeq(seq, target + 1, Len(seq)),
                                !.g.activeClipId = target + 1,
                                !.g.dirty = TRUE]

\* handleDeleteClip that leaves the choice of the active clip to the
\* effects of the page
handleDeleteClip_keeping(w) ==
    IF w.g.activeClipId = 0 THEN w
    ELSE LET seq == w.g.sequence
             index == w.g.activeClipId
             w1 == [stopAll(w) EXCEPT !.g.sequencePlayRef = FALSE,
                                      !.g.dirty = TRUE]
         IN  IF index \notin 1..Len(seq) THEN w1
             ELSE [w1 EXCEPT !.g.sequence = SubSeq(seq, 1, index - 1)
                                            \o SubSeq(seq, index + 1, Len(seq))]

\* handleDeleteClip: the active clip leaves the sequence and the clip
\* before it (else the first) becomes the active one
\* handleDeleteClip without the call of the preview's stop handler
handleDeleteClip_running(w) ==
    IF w.g.activeClipId = 0 THEN w
    ELSE LET seq == w.g.sequence
             index == w.g.activeClipId
             w1 == [w EXCEPT !.g.sequencePlayRef = FALSE,
                                      !.g.dirty = TRUE]
         IN  IF index \notin 1..Len(seq) THEN w1
             ELSE LET next == SubSeq(seq, 1, index - 1)
                              \o SubSeq(seq, index + 1, Len(seq))
                      fallback == IF Len(next) = 0 THEN 0
                                  ELSE Max(1, index - 1)
                  IN  IF fallback # 0
                      THEN [w1 EXCEPT !.g.sequence = next,
                                      !.g.activeClipId = fallback,
                                      !.g.activeVideo = next[fallback].assetId]
                      ELSE [w1 EXCEPT !.g.sequence = next,
                                      !.g.activeClipId = 0,
                                      !.g.activeVideo = 0,
                                      !.g.timelineTime = 0]

handleDeleteClip(w) ==
    IF w.g.activeClipId = 0 THEN w
    ELSE LET seq == w.g.sequence
             index == w.g.activeClipId
             w1 == [stopAll(w) EXCEPT !.g.sequencePlayRef = FALSE,
                                      !.g.dirty = TRUE]
         IN  IF index \notin 1..Len(seq) THEN w1
             ELSE LET next == SubSeq(seq, 1, index - 1)
                              \o SubSeq(seq, index + 1, Len(seq))
                      fallback == IF Len(next) = 0 THEN 0
                                  ELSE Max(1, index - 1)
                  IN  IF fallback # 0
                      THEN [w1 EXCEPT !.g.sequence = next,
                                      !.g.activeClipId = fallback,
                                      !.g.activeVideo = next[fallback].assetId]
                      ELSE [w1 EXCEPT !.g.sequence = next,
                                      !.g.activeClipId = 0,
                                      !.g.activeVideo = 0,
                                      !.g.timelineTime = 0]

handleTrimChange(w, start, end) ==
    IF w.g.activeClipId = 0 THEN w
    ELSE [w EXCEPT !.g.sequence =
                      [i \in 1..Len(@) |->
                         IF i = w.g.activeClipId
                         THEN [@[i] EXCEPT !.inPoint = start, !.outPoint = end]
                         ELSE @[i]],
                   !.g.dirty = TRUE]

\* The history notes in queued the position a cross-asset start or advance
\* has queued; a start or advance on the loaded asset clears it.
startSequenceAt(w, time, throws, allowed) ==
    IF Len(w.g.sequence) = 0 THEN w
    ELSE LET seq == w.g.sequence
             clip == getClipAtTime(seq, time)
             offset == Max(0, time - ClipStart(seq, clip))
             w1 == [w EXCEPT !.g.sequencePlayRef = TRUE, !.g.dirty = TRUE]
         IN  IF seq[clip].assetId = w.g.activeVideo
             THEN LET w2 == [w1 EXCEPT !.g.activeClipId = clip,
                                       !.h.queued = Null]
                      w3 == requestSeek(w2, seq[clip].inPoint + offset, throws)
                  IN  playControl([w3 EXCEPT !.g.timelineTime = time], allowed)
             ELSE [stopAll(w1)
                   EXCEPT !.g.activeClipId = clip,
                          !.g.timelineTime = time,
                          !.g.activeVideo = seq[clip].assetId,
                          !.g.pendingSeekRef = Some(seq[clip].inPoint + offset),
                          !.g.pendingAutoPlayRef = TRUE,
                          !.h.queued = Some(seq[clip].inPoint + offset)]

\* handlePlayToggle(playing), the play button of a page with a timeline
handlePlayToggle(w, playing, throws, allowed) ==
    IF Len(w.g.sequence) = 0 THEN togglePlayback(w, allowed)
    ELSE IF playing
    THEN pauseControl([w EXCEPT !.g.sequencePlayRef = FALSE, !.h.queued = Null])
    ELSE LET total == sequenceDuration(w.g.sequence)
             restartThreshold == Max(0, total - RestartMargin)
             startTime == IF total > 0 /\ w.g.timelineTime >= restartThreshold
                          THEN 0 ELSE w.g.timelineTime
         IN  startSequenceAt(w, startTime, throws, allowed)

\* handlePreviewDuration, called with the duration the preview rendered
handlePreviewDuration(w, duration, throws, allowed) ==
    IF duration <= 0 THEN w
    ELSE LET w1 == IF ~IsNull(w.g.pendingSeekRef)
                   THEN [requestSeek(w, w.g.pendingSeekRef[1], throws)
                         EXCEPT !.g.pendingSeekRef = Null]
                   ELSE w
             w2 == IF w1.g.pendingAutoPlayRef
                   THEN playControl([w1 EXCEPT !.g.pendingAutoPlayRef = FALSE],
                                    allowed)
                   ELSE w1
             id == w.g.activeClipId
         IN  IF id = 0 \/ w.g.sequence[activeClip(w.g)].assetId # w.g.activeVideo
             THEN w2
             ELSE [w2 EXCEPT !.g.sequence =
                     [i \in 1..Len(@) |->
                        IF i # id THEN @[i]
                        ELSE LET clip == @[i]
                                 maxOut == duration
                                 nextOut ==
                                    IF clip.outPoint <= clip.inPoint
                                       \/ clip.outPoint <= 0
                                    THEN maxOut
                                    ELSE Min(clip.outPoint, maxOut)
                                 nextIn == Min(clip.inPoint, nextOut)
                             IN  [clip EXCEPT !.inPoint = nextIn,
                                              !.outPoint = nextOut]]]

\* advanceToNextClip that goes on with the first clip after the last
advanceToNextClip_around(w, allowed) ==
    IF w.g.activeClipId = 0 \/ Len(w.g.sequence) = 0 THEN w
    ELSE IF w.g.activeClipId \notin 1..Len(w.g.sequence) THEN w
    ELSE LET seq == w.g.sequence
             next == (w.g.activeClipId % Len(seq)) + 1
         IN  IF w.g.activeVideo = seq[next].assetId
             THEN LET w1 == [w EXCEPT !.g.activeClipId = next,
                                      !.g.timelineTime = ClipStart(seq, next),
                                      !.g.dirty = TRUE,
                                      !.h.queued = Null]
                  IN  playControl(requestSeek(w1, seq[next].inPoint, FALSE), allowed)
             ELSE [stopAll(w)
                   EXCEPT !.g.activeClipId = next,
                          !.g.timelineTime = ClipStart(seq, next),
                          !.g.activeVideo = seq[next].assetId,
                          !.g.pendingSeekRef = Some(seq[next].inPoint),
                          !.g.pendingAutoPlayRef = TRUE,
                          !.g.dirty = TRUE,
                          !.h.queued = Some(seq[next].inPoint)]

advanceToNextClip(w, allowed) ==
    IF w.g.activeClipId = 0 \/ Len(w.g.sequence) = 0 THEN w
    ELSE IF w.g.activeClipId \notin 1..Len(w.g.sequence) THEN w
    ELSE IF w.g.activeClipId = Len(w.g.sequence)
    THEN [w EXCEPT !.g.sequencePlayRef = FALSE]
    ELSE LET seq == w.g.sequence
             next == w.g.activeClipId + 1
         IN  IF w.g.activeVideo = seq[next].assetId
             THEN LET w1 == [w EXCEPT !.g.activeClipId = next,
                                      !.g.timelineTime = ClipStart(seq, next),
                                      !.g.dirty = TRUE,
                                      !.h.queued = Null]
                  IN  playControl(requestSeek(w1, seq[next].inPoint, FALSE), allowed)
             ELSE [stopAll(w)
                   EXCEPT !.g.activeClipId = next,
                          !.g.timelineTime = ClipStart(seq, next),
                          !.g.activeVideo = seq[next].assetId,
                          !.g.pendingSeekRef = Some(seq[next].inPoint),
                          !.g.pendingAutoPlayRef = TRUE,
                          !.g.dirty = TRUE,
                          !.h.queued = Some(seq[next].inPoint)]

\* handleTrimEnd, the page's answer to the boundary signal of the preview
handleTrimEnd(w, allowed) ==
    IF ~w.g.sequencePlayRef THEN w ELSE advanceToNextClip(w, allowed)

handlePreviewTimeUpdate(w, time) ==
    LET clip == activeClip(w.g) IN
    IF clip = 0 THEN w
    ELSE IF w.g.sequence[clip].assetId # w.g.activeVideo THEN w
    ELSE [w EXCEPT !.g.timelineTime =
                      ClipStart(w.g.sequence, clip)
                      + Max(0, time - w.g.sequence[clip].inPoint)]

\* The crop controls of the page: cropMode is "local" or "cloudinary" (the
\* remote smart crop), cropFocus the gravity of the remote crop, and
\* cloudinaryError the message shown ("none" for null, "smart" for "Smart
\* crop unavailable. Falling back to center crop.", "failed" for
\* "Cloudinary crop failed. Using local center crop.")
CropModes == {"local", "cloudinary"}

CropFocuses == {"auto", "center", "faces"}

handleCropModeChange(w, mode) ==
    [w EXCEPT !.g.cloudinaryError = "none", !.g.cropMode = mode,
              !.g.dirty = TRUE]

handleCropFocusChange(w, value) ==
    [w EXCEPT !.g.cloudinaryError = "none", !.g.cropFocus = value,
              !.g.dirty = TRUE]

\* handleVideoError that gives up the remote crop at the first error
handleVideoError_direct(w) ==
    IF w.g.cropMode # "cloudinary" THEN w
    ELSE [w EXCEPT !.g.cloudinaryError = "failed",
                   !.g.cropMode = "local",
                   !.g.dirty = TRUE]

\* handleVideoError, the handler of the element's error event
handleVideoError(w) ==
    IF w.g.cropMode # "cloudinary" THEN w
    ELSE IF w.g.cropFocus # "center"
    THEN [w EXCEPT !.g.cloudinaryError = "smart",
                   !.g.cropFocus = "center",
                   !.g.dirty = TRUE]
    ELSE [w EXCEPT !.g.cloudinaryError = "failed",
                   !.g.cropMode = "local",
                   !.g.dirty = TRUE]

\* The page's effect for a timeline without clips: stop the preview and
\* clear the active clip, the active asset, the timeline time and the
\* sequence-playing flag. It runs at the mount and when the number of clips
\* changes; on a page that it has already cleared it changes nothing.
emptySequenceEffect(w) ==
    IF Len(w.g.sequence) > 0 THEN w
    ELSE [stopAll(w) EXCEPT !.g.sequencePlayRef = FALSE,
                            !.g.activeClipId = 0,
                            !.g.activeVideo = 0,
                            !.g.timelineTime = 0,
                            !.g.dirty = \/ @
                                        \/ w.g.activeClipId # 0
                                        \/ w.g.activeVideo # 0
                                        \/ w.g.timelineTime # 0]

\* The page's own effects after a render: make the first clip the active
\* one, clear the page when no clip is left, and load the asset of the
\* active clip
pageEffects(w) ==
    LET w0 == emptySequenceEffect(w)
        w1 == IF w0.g.activeClipId = 0 /\ Len(w0.g.sequence) > 0
              THEN [w0 EXCEPT !.g.activeClipId = 1, !.g.dirty = TRUE]
              ELSE w0
        clip == activeClip(w.g)
    IN  IF clip # 0 /\ w.g.sequence[clip].assetId # w.g.activeVideo
        THEN [w1 EXCEPT !.g.activeVideo = w.g.sequence[clip].assetId,
                        !.g.dirty = TRUE]
        ELSE w1

\* A render of the page and the preview with the effects that follow it.
\* The preview's effects run first, in the order of their declaration: the
\* hook's and (here after them, they touch other state) the trim
\* controller's, then onTimeUpdate (due: 80 ms have passed since the last
\* call made while playing), onDurationChange and, when the source
\* changed, onScrubReady with the new scrub; the page's effects run last,
\* of which the one for a new active asset clears the crop message.
\* handlePreviewTimeUpdate and handlePreviewDuration are new functions
\* after every change of the active clip or asset, so their effects are
\* taken to run whenever a change that they could act on has been rendered.
pageCommit(w, throws, allowed, due) ==
    LET rp == w.p.isPlaying
        rd == w.p.duration
        rt == w.p.currentTime
        s == w.g.activeVideo
        g0 == [w EXCEPT !.g.dirty = FALSE, !.g.rTime = rt]
        w1 == IF s # w.p.videoSource THEN swapSource(g0, s)
              ELSE IF rp # w.p.rPlaying \/ rd # w.p.rDuration THEN commit(g0)
              ELSE g0
        w2 == IF ~rp \/ due THEN handlePreviewTimeUpdate(w1, rt) ELSE w1
        w3 == handlePreviewDuration(w2, rd, throws, allowed)
        w4 == IF s # w.p.videoSource THEN handleScrubReady(w3, s, throws) ELSE w3
        w5 == IF s # w.p.videoSource /\ w4.g.cloudinaryError # "none"
              THEN [w4 EXCEPT !.g.cloudinaryError = "none", !.g.dirty = TRUE]
              ELSE w4
    IN  pageEffects(w5)

\* The tick of the trim controller with the boundary signal delivered to
\* the page: the tick that pauses at the out point calls onTrimEnd
tickSignal(w, allowed) ==
    LET w1 == tick(w, FALSE, FALSE) IN
    IF w1.c.stopLockRef /\ ~w.c.stopLockRef
    THEN handleTrimEnd(w1, allowed) ELSE w1

----------------------------------------------------------------------------
(* Initial state: CanvasPreview mounted with the empty source, after the    *)
(* first effects (stopAndUnload) have run                                   *)

InitVideo == NewVideo(0)

InitPlayer ==
    [ mounted |-> TRUE,
      videoSource |-> 0,
      isPlaying |-> FALSE, rPlaying |-> FALSE,
      duration |-> 0, rDuration |-> 0,
      currentTime |-> 0,
      forcedTimeRef |-> Null,
      isPlayingRef |-> FALSE,
      lastTimeUpdateValueRef |-> 0,
      frameLoopRef |-> "null", frameCbs |-> 0, frameOld |-> 0,
      timeUpdateRef |-> "null", timeCbs |-> 0, timeOld |-> 0,
      canvasSize |-> <<BaseWidth, BaseHeight>>,
      effectsPending |-> FALSE,
      lastMediaTimeRef |-> -1,
      surface |-> Blank ]

\* The sliders start at the inspector's defaults (35, 12 and 24 percent)
InitPreview ==
    [ trimStart |-> 0, trimEnd |-> 0, isLooping |-> FALSE,
      stopLockRef |-> FALSE, lastPlayheadRef |-> 0,
      tickPending |-> FALSE,
      sharpenAmount |-> 35, noiseAmount |-> 12, grainAmount |-> 24,
      aspectRatio |-> "none" ]

\* exportState, exportTimeoutRef (timer) and the run that exportCut started:
\* its stage, whether its listeners are on the element, and the values it
\* captured
InitExport ==
    [ status |-> "idle", progress |-> 0, message |-> "none",
      timer |-> FALSE,
      stage |-> "none", listening |-> FALSE,
      wasPlaying |-> FALSE, resumeTime |-> 0, duration |-> 0 ]

\* The page after its first render: no clips, no asset; the preview has
\* handed over the scrub of its first render (empty source)
InitPage ==
    [ sequence |-> <<>>, activeClipId |-> 0, activeVideo |-> 0,
      timelineTime |-> 0, rTime |-> 0, dirty |-> FALSE,
      pendingSeekRef |-> Null, pendingAutoPlayRef |-> FALSE,
      sequencePlayRef |-> FALSE, scrubHandlerRef |-> Some(0),
      cropMode |-> "local", cropFocus |-> "auto",
      cloudinaryError |-> "none" ]

InitHist ==
    [ pauseAtCalls |-> 0, signals |-> 0, crossings |-> 0, wraps |-> 0,
      pausedAt |-> Null, seekedWhileForced |-> FALSE, denied |-> FALSE,
      ignored |-> FALSE, failed |-> FALSE, queued |-> Null, edits |-> 0,
      staleTicks |-> 0 ]

Init ==
    /\ video = InitVideo
    /\ player = InitPlayer
    /\ preview = InitPreview
    /\ export = InitExport
    /\ page = InitPage
    /\ hist = InitHist

\* The step of handler op that leads to state w
Step(op, w) == Apply(w)

----------------------------------------------------------------------------
(* Actions: the host's media element *)

\* Playback advances the position of an unpaused element
MediaAdvance(Ts) ==
    /\ video.ready /\ ~video.paused /\ video.play = 0
    /\ video.seek # "lag" /\ video.time < video.dur
    /\ \E t \in Ts :
         /\ t > video.time /\ t <= video.dur
         /\ Step("advance", [W EXCEPT !.v.time = t])

\* A seek whose position was not yet reported lands
SeekLand ==
    /\ video.seek = "lag"
    /\ Step("land", [W EXCEPT !.v.time = video.target, !.v.target = 0,
                               !.v.seek = "landed"])

\* "loadedmetadata" reaches the hook's listener, which an effect of the
\* render attaches to the element
HandleLoadedMetadata ==
    /\ video.src # 0 /\ ~video.ready
    /\ ~player.effectsPending
    /\ Step("loadedmetadata", handleLoadedMetadata(W))

\* "timeupdate" runs the hook's listener, then the one of an export run
HandleTimeUpdate ==
    /\ video.ready
    /\ Step("timeupdate", exportTimeUpdate(handleTimeUpdate(W)))

\* "seeked" is delivered for a landed seek, or for an earlier one while the
\* latest has not landed
HandleSeeked ==
    /\ video.seek # "none"
    /\ Step("seeked",
            handleSeeked([W EXCEPT !.v.seek = IF @ = "landed" THEN "none" ELSE @]))

\* Playback reaches the end: the host pauses the element and fires "ended"
HandleEnded ==
    /\ ~video.paused /\ Ended(video)
    /\ Step("ended", exportEnded(handleEnded(pause(W))))

\* The play() promise resolves once the element plays: it has data beyond
\* the current position, which it has not at the end of the resource
PlayResolved ==
    /\ video.play > 0 /\ video.ready /\ ~video.paused /\ ~Ended(video)
    /\ Step("playResolved", playResolved(W))

\* A paused element is moved to the end of its resource during an export
\* run: hosts may fire "ended" for it
ParkedEnded ==
    /\ video.paused /\ Ended(video)
    /\ export.stage = "recording"
    /\ Step("ended", exportEnded(handleEnded(W)))

----------------------------------------------------------------------------
(* Actions: callbacks of the loops and React *)

FrameLoop ==
    /\ player.frameCbs > 0
    /\ Step("frameLoop", frameLoop(W))

TimeLoop ==
    /\ player.timeCbs > 0
    /\ \E due \in BOOLEAN : Step("timeLoop", timeLoop(W, due))

\* A loop callback requested for a replaced element fires: videoRef no
\* longer points to the element it captured, and it clears the handle
StaleFrameLoop ==
    /\ player.frameOld > 0
    /\ Step("staleFrameLoop",
            [W EXCEPT !.p.frameOld = @ - 1, !.p.frameLoopRef = "null",
                      !.h.staleTicks = Min(MaxCount, @ + 1)])

StaleTimeLoop ==
    /\ player.timeOld > 0
    /\ Step("staleTimeLoop",
            [W EXCEPT !.p.timeOld = @ - 1, !.p.timeUpdateRef = "null",
                      !.h.staleTicks = Min(MaxCount, @ + 1)])

Tick(Lags) ==
    /\ preview.tickPending
    /\ \E lag \in Lags : Step("tick", tick(W, lag, FALSE))

Commit ==
    /\ player.mounted /\ ~player.effectsPending
    /\ \/ player.isPlaying # player.rPlaying
       \/ player.duration # player.rDuration
    /\ Step("commit", commit(W))

----------------------------------------------------------------------------
(* Actions: the user and the page.  The user acts on what is rendered: *)
(* React renders the state set by a callback before the next input event.  *)

Rendered ==
    /\ player.mounted /\ ~player.effectsPending
    /\ player.isPlaying = player.rPlaying
    /\ player.duration = player.rDuration

ClickPlay(Lags, Answers) ==
    /\ Rendered
    /\ video.play < MaxPlays
    /\ \E allowed \in Answers, lag \in Lags :
         Step("clickPlay", clickPlay(W, allowed, lag))

ScrubInput(Lags, Ts) ==
    /\ Rendered
    /\ \E t \in Ts, lag \in Lags :
         /\ t <= player.rDuration
         /\ Step("scrub", scrub(W, t, lag, FALSE))

\* A caller of the hook's scrub (the page through onScrubReady, the
\* timeline), at any time of the source, also before its metadata
ScrubCall(Lags, Ts, Throws) ==
    /\ Rendered
    /\ player.videoSource # 0
    /\ \E t \in Ts, lag \in Lags, throws \in Throws :
         Step("scrub", scrub(W, t, lag, throws))

\* A caller of the hook's togglePlayback
TogglePlayback(Answers) ==
    /\ Rendered
    /\ player.videoSource # 0
    /\ video.play < MaxPlays
    /\ \E allowed \in Answers :
         Step("togglePlayback", togglePlayback(W, allowed))

ToggleLoop ==
    /\ Rendered
    /\ Step("toggleLoop", commit([W EXCEPT !.c.isLooping = ~@]))

TrimDrag(Lags, Handles, Ts) ==
    /\ Rendered
    /\ \E type \in Handles, time \in Ts, lag \in Lags :
         /\ player.rDuration # 0 /\ time <= player.rDuration
         /\ Step("trimDrag", commit(updateTrimFromClient(W, type, time, lag)))

SetSource ==
    /\ Rendered
    /\ \E s \in 0..NSources :
         /\ s # player.videoSource
         /\ Step("setSource", swapSource(W, s))

Sliders == {a \in 0..100 : a % SliderStep = 0}

\* The user moves a slider of the inspector: the preview renders with the
\* new amount
SetSlider ==
    /\ Rendered
    /\ \E a \in Sliders :
         \/ a # preview.sharpenAmount
            /\ Step("sharpness", [W EXCEPT !.c.sharpenAmount = a])
         \/ a # preview.noiseAmount
            /\ Step("noise", [W EXCEPT !.c.noiseAmount = a])
         \/ a # preview.grainAmount
            /\ Step("grain", [W EXCEPT !.c.grainAmount = a])

\* The user moves a slider of the inspector, with the effect on [drawFrame]
\* of the render that follows: drawFrame is a new function for the new
\* amount, and the effect calls it
SliderRedraw ==
    /\ Rendered
    /\ \E a \in Sliders, noise \in Noises, grain \in Noises :
         \/ a # preview.sharpenAmount
            /\ Step("sharpness",
                    compositeFrame([W EXCEPT !.c.sharpenAmount = a],
                                   noise, grain))
         \/ a # preview.noiseAmount
            /\ Step("noise",
                    compositeFrame([W EXCEPT !.c.noiseAmount = a],
                                   noise, grain))
         \/ a # preview.grainAmount
            /\ Step("grain",
                    compositeFrame([W EXCEPT !.c.grainAmount = a],
                                   noise, grain))

\* A further call of drawFrame with unchanged props (after loadedmetadata
\* and loadeddata, after a seek): the noise is drawn anew
Redraw ==
    /\ Rendered
    /\ \E noise \in Noises, grain \in Noises :
         Step("drawFrame", compositeFrame(W, noise, grain))

\* The aspect ratios of the preview's crop control
Aspects == {"none", "landscape", "square", "vertical"}

\* The user picks an aspect ratio: the preview renders with it and the
\* canvas is resized
SetAspect ==
    /\ Rendered
    /\ \E a \in Aspects :
         /\ a # preview.aspectRatio
         /\ Step("aspect", resizeEffect([W EXCEPT !.c.aspectRatio = a]))

\* The preview is given one of the further sources
LoadSized ==
    /\ Rendered
    /\ \E s \in (NSources + 1)..(NSources + Len(OtherSizes)) :
         /\ s # player.videoSource
         /\ Step("setSource", swapSource(W, s))

\* The page stops the preview through the handler of onStopReady
StopPreview ==
    /\ Rendered
    /\ player.videoSource # 0
    /\ Step("stopAll", stopAll(W))

\* The page removes the preview
Unmount ==
    /\ player.mounted
    /\ Step("unmount", unmount(W))

\* The source changes in a render whose effects React defers to a later
\* task (a render that no click or key press caused): the element is
\* replaced now
MountSource ==
    /\ Rendered
    /\ \E s \in 0..NSources :
         /\ s # player.videoSource
         /\ Step("mount", mountSource(W, s))

\* React runs the deferred effects, before any further render or input
FlushEffects ==
    /\ player.effectsPending
    /\ Step("effects", passiveEffects(W))

\* The first source given to the preview
LoadFirst ==
    /\ player.videoSource = 0
    /\ Step("setSource", swapSource(W, 1))

----------------------------------------------------------------------------
(* Actions: the export capturer *)

\* The page calls the exportCut it was given by onExportReady
ExportRequest(Answers, Offers) ==
    /\ Rendered
    /\ video.play < MaxPlays
    /\ export.stage = "none" \/ export.status = "exporting"
    /\ \E host \in Offers, allowed \in Answers :
         Step("exportCut", exportCut(W, host, allowed))

RecorderError ==
    /\ export.stage = "recording"
    /\ \E stops \in BOOLEAN : Step("recorder.onerror", recorderError(W, stops))

\* The recorder's stop event
RecorderStop ==
    /\ export.stage = "stopping"
    /\ Step("recorder.onstop", handleStop(W))

SignDone(Answers) ==
    /\ export.stage = "signing"
    /\ video.play < MaxPlays
    /\ \E ok \in BOOLEAN, allowed \in Answers :
         Step("signed", signed(W, ok, allowed))

\* Upload progress events report a growing number of bytes
UploadProgress ==
    /\ export.stage = "uploading"
    /\ \E percent \in {UploadHalf} :
         /\ 70 + percent >= export.progress
         /\ Step("upload.onprogress", uploadProgress(W, percent))

UploadDone(Answers) ==
    /\ export.stage = "uploading"
    /\ video.play < MaxPlays
    /\ \E ok \in BOOLEAN, allowed \in Answers :
         Step("uploaded", uploaded(W, ok, allowed))

ResetTimer ==
    /\ export.timer
    /\ Step("exportTimeout", resetTimer(W))

----------------------------------------------------------------------------
(* Actions: the page with its timeline *)

PageRendered ==
    /\ Rendered
    /\ page.activeVideo = player.videoSource
    /\ ~page.dirty
    /\ player.currentTime = page.rTime

PageCommit(Throws, Answers) ==
    /\ player.mounted
    /\ ~PageRendered
    /\ \E throws \in Throws, allowed \in Answers, due \in BOOLEAN :
         Step("render", pageCommit(W, throws, allowed, due))

AddToTimeline(Library) ==
    /\ PageRendered
    /\ Len(page.sequence) < MaxClips
    /\ \E asset \in Library :
         Step("handleAddToTimeline", handleAddToTimeline(W, asset))

\* The times of the timeline that the user points at: the start and the
\* middle of a clip of the default duration
TimelineTimes == {0, DefaultDuration \div 2}

\* The user points at a time of the timeline, which spans the sequence
TimelineScrub(Throws) ==
    /\ PageRendered
    /\ \E time \in TimelineTimes, throws \in Throws :
         /\ time <= sequenceDuration(page.sequence)
         /\ time # page.timelineTime
         /\ Step("handleTimelineScrub", handleTimelineScrub(W, time, throws))

\* The user picks a clip of the timeline
SelectClip(Throws) ==
    /\ PageRendered
    /\ \E clip \in 1..Len(page.sequence), throws \in Throws :
         Step("selectClip", selectClip(W, clip, throws))

\* The split button; a split may put one clip more on the timeline than
\* adding can.  The history counts the presses of split and delete.
SplitClip ==
    /\ PageRendered
    /\ Len(page.sequence) <= MaxClips
    /\ hist.edits < MaxEdits
    /\ Step("handleSplitClip", [handleSplitClip(W) EXCEPT !.h.edits = @ + 1])

\* The delete button
DeleteClip ==
    /\ PageRendered
    /\ page.activeClipId # 0
    /\ hist.edits < MaxEdits
    /\ Step("handleDeleteClip", [handleDeleteClip(W) EXCEPT !.h.edits = @ + 1])

\* The trim handles of the preview report a new in point of the active clip
TrimChange ==
    /\ PageRendered
    /\ page.activeClipId # 0
    /\ \E start \in {0, NearMax} :
         /\ start # page.sequence[page.activeClipId].inPoint
         /\ Step("handleTrimChange",
                 handleTrimChange(W, start,
                                  page.sequence[page.activeClipId].outPoint))

\* The play button of the preview reports the rendered playing state
\* The crop controls of the preview
CropModeChange ==
    /\ PageRendered
    /\ \E mode \in CropModes :
         /\ mode # page.cropMode
         /\ Step("handleCropModeChange", handleCropModeChange(W, mode))

CropFocusChange ==
    /\ PageRendered
    /\ \E value \in CropFocuses :
         /\ value # page.cropFocus
         /\ Step("handleCropFocusChange", handleCropFocusChange(W, value))

\* The element rendered for the current source fails to load it
VideoError ==
    /\ PageRendered
    /\ video.src # 0 /\ ~video.ready
    /\ Step("handleVideoError", handleVideoError(W))

PlayToggle(Throws, Answers) ==
    /\ PageRendered
    /\ video.play < MaxPlays
    /\ \E throws \in Throws, allowed \in Answers :
         Step("handlePlayToggle",
              handlePlayToggle(W, player.rPlaying, throws, allowed))

TickSignal(Answers) ==
    /\ preview.tickPending
    /\ \E allowed \in Answers : Step("tick", tickSignal(W, allowed))

----------------------------------------------------------------------------
\* A host that reports the position of a seek at once
Std == {FALSE}
\* A host that accepts every play request
Allowed == {TRUE}

\* The trim and loop controller on one loaded source, on a host that
\* reports a seek's position at once
NextTrim ==
    \/ LoadFirst \/ HandleLoadedMetadata \/ Commit
    \/ MediaAdvance(Times) \/ HandleTimeUpdate \/ HandleSeeked \/ HandleEnded
    \/ PlayResolved \/ FrameLoop \/ TimeLoop
    \/ Tick(Std)
    \/ ClickPlay(Std, Allowed) \/ ScrubInput(Std, Times) \/ ToggleLoop
    \/ TrimDrag(Std, {"start", "end"}, Times)

SpecTrim == Init /\ [][NextTrim]_vars

\* The transport with the trim stop on a host whose seeks may take time to
\* land; the user moves the out point only
NextSeek ==
    \/ LoadFirst \/ HandleLoadedMetadata \/ Commit
    \/ MediaAdvance(Times) \/ SeekLand
    \/ HandleTimeUpdate \/ HandleSeeked \/ HandleEnded
    \/ PlayResolved \/ FrameLoop \/ TimeLoop
    \/ Tick(BOOLEAN)
    \/ ClickPlay(BOOLEAN, Allowed) \/ ScrubInput(BOOLEAN, Times)
    \/ TrimDrag(BOOLEAN, {"end"}, Times)

SpecSeek == Init /\ [][NextSeek]_vars

\* The transport while the page changes the source of the preview
NextPlay ==
    \/ SetSource \/ HandleLoadedMetadata \/ Commit
    \/ MediaAdvance(Times) \/ HandleTimeUpdate \/ HandleSeeked \/ HandleEnded
    \/ PlayResolved \/ FrameLoop \/ TimeLoop
    \/ Tick(Std)
    \/ ClickPlay(Std, BOOLEAN) \/ ScrubInput(Std, Times)

SpecPlay == Init /\ [][NextPlay]_vars

\* The transport with every operation that releases the loops: pause, the
\* trim stop, the end of the media, a change of source and the teardown
NextRelease ==
    \/ SetSource \/ HandleLoadedMetadata \/ Commit
    \/ MediaAdvance(Coarse) \/ HandleTimeUpdate \/ HandleSeeked \/ HandleEnded
    \/ PlayResolved \/ FrameLoop \/ TimeLoop
    \/ Tick(Std)
    \/ ClickPlay(Std, Allowed) \/ TrimDrag(Std, {"end"}, Times)
    \/ StopPreview \/ Unmount

SpecRelease == Init /\ [][NextRelease]_vars

\* The transport with scrubs at any time, before and after the metadata, on
\* a host whose seeks may take time to land and may raise before the
\* metadata is there
NextScrub ==
    \/ SetSource \/ HandleLoadedMetadata \/ Commit
    \/ MediaAdvance(Coarse) \/ SeekLand
    \/ HandleTimeUpdate \/ HandleSeeked \/ HandleEnded
    \/ PlayResolved \/ FrameLoop \/ TimeLoop
    \/ ClickPlay(BOOLEAN, Allowed)
    \/ ScrubCall(BOOLEAN, Times, BOOLEAN)

SpecScrub == Init /\ [][NextScrub]_vars

\* Export runs on one loaded source, with the play button
NextExport ==
    \/ LoadFirst \/ HandleLoadedMetadata \/ Commit
    \/ MediaAdvance(Coarse) \/ HandleTimeUpdate \/ HandleSeeked \/ HandleEnded
    \/ PlayResolved \/ FrameLoop \/ TimeLoop
    \/ Tick(Std)
    \/ ClickPlay(Std, Allowed)
    \/ ExportRequest(Allowed, {FullHost}) \/ RecorderError \/ RecorderStop
    \/ SignDone(Allowed) \/ UploadProgress \/ UploadDone(Allowed)
    \/ ResetTimer

SpecExport == Init /\ [][NextExport]_vars

\* Export runs with the trim range, the loop setting and the answer to the
\* play request left open, under fair delivery of the events of the media
\* element, the recorder, the network, the timers and React: every such
\* event that stays possible happens, while the user need not act.  The
\* host is taken to fire "ended" for an element parked at its end.
NextLive ==
    \/ LoadFirst \/ HandleLoadedMetadata \/ Commit
    \/ MediaAdvance(Coarse) \/ HandleTimeUpdate \/ HandleEnded \/ ParkedEnded
    \/ PlayResolved \/ FrameLoop \/ TimeLoop
    \/ Tick(Std)
    \/ TrimDrag(Std, {"end"}, Coarse) \/ ToggleLoop
    \/ ExportRequest(BOOLEAN, {FullHost}) \/ RecorderStop
    \/ SignDone(Allowed) \/ UploadProgress \/ UploadDone(Allowed)
    \/ ResetTimer

FairLive ==
    /\ WF_vars(HandleLoadedMetadata) /\ WF_vars(Commit)
    /\ WF_vars(MediaAdvance(Coarse)) /\ WF_vars(HandleTimeUpdate)
    /\ WF_vars(HandleEnded) /\ WF_vars(ParkedEnded)
    /\ WF_vars(PlayResolved) /\ WF_vars(FrameLoop) /\ WF_vars(TimeLoop)
    /\ WF_vars(Tick(Std))
    /\ WF_vars(RecorderStop) /\ WF_vars(SignDone(Allowed))
    /\ WF_vars(UploadDone(Allowed)) /\ WF_vars(ResetTimer)

SpecLive == Init /\ [][NextLive]_vars /\ FairLive

\* The loops over source changes whose effects run at once or later
NextStale ==
    \/ LoadFirst \/ SetSource \/ MountSource \/ FlushEffects
    \/ StaleFrameLoop \/ StaleTimeLoop
    \/ HandleLoadedMetadata \/ Commit
    \/ MediaAdvance(Coarse) \/ HandleEnded
    \/ PlayResolved \/ FrameLoop \/ TimeLoop
    \/ ClickPlay(Std, Allowed) \/ StopPreview

SpecStale == Init /\ [][NextStale]_vars

\* The hook's togglePlayback on a host that may reject play() and whose
\* seeks may take time to land, with the trim stop
NextToggle ==
    \/ LoadFirst \/ HandleLoadedMetadata \/ Commit
    \/ MediaAdvance(Coarse) \/ SeekLand
    \/ HandleTimeUpdate \/ HandleSeeked \/ HandleEnded
    \/ PlayResolved \/ FrameLoop \/ TimeLoop
    \/ Tick(BOOLEAN)
    \/ TogglePlayback(BOOLEAN)

SpecToggle == Init /\ [][NextToggle]_vars

\* The active clip under every operation of the sequencer: clips are
\* added, picked, split and deleted, and played in sequence
NextActive ==
    \/ AddToTimeline(Assets) \/ SelectClip(Std) \/ TimelineScrub(Std)
    \/ SplitClip \/ DeleteClip
    \/ PageCommit(Std, Allowed)
    \/ HandleLoadedMetadata
    \/ MediaAdvance(Coarse) \/ HandleTimeUpdate
    \/ PlayResolved \/ FrameLoop \/ TimeLoop
    \/ TickSignal(Allowed)
    \/ PlayToggle(Std, Allowed)

SpecActive == Init /\ [][NextActive]_vars

\* Export runs requested on hosts of every capability
NextCapability ==
    \/ LoadFirst \/ HandleLoadedMetadata \/ Commit
    \/ MediaAdvance(Coarse) \/ HandleTimeUpdate \/ HandleSeeked \/ HandleEnded
    \/ PlayResolved \/ FrameLoop \/ TimeLoop
    \/ ExportRequest(Allowed, Hosts) \/ RecorderError \/ RecorderStop
    \/ SignDone(Allowed) \/ UploadProgress \/ UploadDone(Allowed)
    \/ ResetTimer

SpecCapability == Init /\ [][NextCapability]_vars

\* The frames composited in preview and during an export run, for the
\* amounts of the inspector's sliders
NextQuality ==
    \/ LoadFirst \/ HandleLoadedMetadata \/ Commit
    \/ MediaAdvance({DurK * MaxMinGap}) \/ HandleEnded
    \/ PlayResolved \/ FrameLoop \/ TimeLoop
    \/ ClickPlay(Std, Allowed)
    \/ ExportRequest(Allowed, {FullHost}) \/ RecorderStop
    \/ SetSlider

SpecQuality == Init /\ [][NextQuality]_vars

\* The canvas of a loaded, paused source under the inspector's sliders
NextEffects ==
    \/ LoadFirst \/ HandleLoadedMetadata \/ Commit
    \/ SliderRedraw \/ Redraw

SpecEffects == Init /\ [][NextEffects]_vars

\* The page's timeline of clips from several assets, played in sequence
NextSeq ==
    \/ AddToTimeline(Catalogued) \/ TrimChange \/ PageCommit(BOOLEAN, Allowed)
    \/ HandleLoadedMetadata
    \/ MediaAdvance(Coarse) \/ HandleTimeUpdate \/ HandleSeeked \/ HandleEnded
    \/ PlayResolved \/ FrameLoop \/ TimeLoop
    \/ TickSignal(Allowed)
    \/ PlayToggle(BOOLEAN, Allowed)

SpecSeq == Init /\ [][NextSeq]_vars

\* The canvas under sources of several frame sizes and the aspect ratios
\* of the crop control
NextGeometry ==
    \/ LoadFirst \/ LoadSized \/ HandleLoadedMetadata \/ Commit
    \/ SetAspect

SpecGeometry == Init /\ [][NextGeometry]_vars

\* The crop controls and the errors of loading a source
NextCrop ==
    \/ AddToTimeline(Catalogued) \/ DeleteClip
    \/ PageCommit(Std, Allowed)
    \/ HandleLoadedMetadata
    \/ CropModeChange \/ CropFocusChange \/ VideoError

SpecCrop == Init /\ [][NextCrop]_vars

\* The timeline played and emptied: clips are added, played in sequence
\* and deleted down to none
NextDelete ==
    \/ AddToTimeline(Catalogued) \/ DeleteClip \/ TimelineScrub(Std)
    \/ PageCommit(Std, Allowed)
    \/ HandleLoadedMetadata
    \/ MediaAdvance(Coarse) \/ HandleTimeUpdate
    \/ PlayResolved \/ FrameLoop \/ TimeLoop
    \/ TickSignal(Allowed)
    \/ PlayToggle(Std, Allowed)

SpecDelete == Init /\ [][NextDelete]_vars

\* The clip list under add, trim change, split and delete, with assets of
\* which the library may not know the duration
NextClips ==
    \/ AddToTimeline(Assets) \/ TrimChange \/ TimelineScrub(Std)
    \/ SplitClip \/ DeleteClip
    \/ PageCommit(Std, Allowed)
    \/ HandleLoadedMetadata

SpecClips == Init /\ [][NextClips]_vars

----------------------------------------------------------------------------
(* Sequencer *)

\* C8: when sequence playback advances or starts into a clip of another
\* asset, the queued seek time and the auto-play intent are taken up only
\* while the metadata of the clip's asset is loaded in the mounted element,
\* and playback that begins while that position is queued begins at it.
C8_CrossAssetAdvance ==
    /\ [][\/ ~IsNull(page.pendingSeekRef) /\ IsNull(page'.pendingSeekRef)
          \/ page.pendingAutoPlayRef /\ ~page'.pendingAutoPlayRef
          => video.ready /\ video.src = page.activeVideo]_vars
    /\ [][~player.isPlaying /\ player'.isPlaying /\ ~IsNull(hist.queued)
          => video'.time = hist.queued[1]]_vars

----------------------------------------------------------------------------
(* Trim and loop controller *)

C3_PauseAtRoundTrip ==
    ~IsNull(hist.pausedAt) =>
        Abs(player.currentTime - hist.pausedAt[1]) <= SeekEpsilon

\* pauseAt was called, its seek has not landed, the media position is more
\* than 0.02 s away and a seeked event was delivered meanwhile
C3_Witness ==
    /\ ~IsNull(hist.pausedAt)
    /\ video.seek = "lag"
    /\ Abs(video.time - hist.pausedAt[1]) > SeekEpsilon
    /\ player.currentTime = hist.pausedAt[1]
    /\ hist.seekedWhileForced

\* C4: while forcedTime is set the published current time is forcedTime;
\* after a pauseAt and until the next transport command, forcedTime is
\* clear only if the media position is within 0.02 s of it, so a seeked
\* event clears it only on convergence and otherwise leaves it reported.
C4_ForcedTimeAuthority ==
    /\ ~IsNull(player.forcedTimeRef) =>
           player.currentTime = player.forcedTimeRef[1]
    /\ ~IsNull(hist.pausedAt) /\ IsNull(player.forcedTimeRef) =>
           Abs(video.time - hist.pausedAt[1]) <= SeekEpsilon
    /\ ~IsNull(hist.pausedAt) /\ ~IsNull(player.forcedTimeRef) =>
           player.forcedTimeRef = hist.pausedAt

\* A seeked event cleared forcedTime on convergence: the seek landed, the
\* media position equals the time given to pauseAt and differs from where
\* playback was stopped
C4_Witness ==
    /\ ~IsNull(hist.pausedAt)
    /\ IsNull(player.forcedTimeRef)
    /\ hist.seekedWhileForced
    /\ video.seek = "none"
    /\ video.time = hist.pausedAt[1]

\* C5: when an export run in which a stage failed (recorder error, signing,
\* upload) ends, the export status is error with a message, the element
\* and the published time are at the position captured when the run
\* started, and the element is paused or not as it was then.
C5_ExportFailureHandling ==
    [][export.stage # "none" /\ export'.stage = "none" /\ hist'.failed =>
         /\ export'.status = "error"
         /\ export'.message # "none"
         /\ video'.time = export.resumeTime
         /\ player'.currentTime = export.resumeTime
         /\ video'.paused = ~export.wasPlaying]_vars

\* C6: between two reports of one export run the progress does not
\* decrease, it never exceeds 100, it is 100 whenever the status is done,
\* and the timer set at done resets the state to idle with progress 0.
C6_ExportProgress ==
    /\ [][export.status = "exporting" /\ export'.status \in {"exporting", "done"}
           => export'.progress >= export.progress]_vars
    /\ [](export.progress <= 100)
    /\ [](export.status = "done" => export.progress = 100)
    /\ [][export.timer /\ ~export'.timer /\ export'.stage = export.stage
           => export'.status = "idle" /\ export'.progress = 0]_vars

\* C7: an export request made in the exporting status changes neither the
\* export state nor the run (no recorder, listener or captured value is
\* replaced), nor the element, the transport or the trim controller (no
\* seek, no play).
C7_ExportReentrancy ==
    [][hist'.ignored # hist.ignored =>
         /\ export.status = "exporting"
         /\ UNCHANGED <<video, player, preview, export>>]_vars

\* An export request was made while a run was recording a playing element
C7_Witness ==
    /\ hist.ignored
    /\ export.status = "exporting" /\ export.stage = "recording"
    /\ export.listening
    /\ ~video.paused /\ video.time > 0 /\ export.progress > 0

\* C9: a togglePlayback on a paused or ended element of a Paused transport
\* whose play request is rejected leaves the playing flag false, both as set
\* and as rendered, leaves the element as it was, and leaves the handle and
\* the pending callbacks of the render loop and of the state-publish loop
\* unchanged, with no play promise added.
C9_PlayFailure ==
    [][hist'.denied # hist.denied /\ ~player.isPlaying =>
         /\ ~player'.isPlaying
         /\ player'.rPlaying = player.rPlaying
         /\ player'.frameLoopRef = player.frameLoopRef
         /\ player'.frameCbs = player.frameCbs
         /\ player'.timeUpdateRef = player.timeUpdateRef
         /\ player'.timeCbs = player.timeCbs
         /\ video'.paused = video.paused
         /\ video'.play = video.play]_vars

\* A play request was rejected on a loaded, paused element: the transport
\* is Paused and no loop has a callback
C9_Witness ==
    /\ hist.denied
    /\ video.ready /\ video.paused /\ video.play = 0
    /\ ~player.isPlaying /\ ~player.rPlaying
    /\ player.frameCbs = 0 /\ player.timeCbs = 0
    /\ player.frameLoopRef = "null" /\ player.timeUpdateRef = "null"

\* C10: an accepted play request of togglePlayback leaves forcedTime clear;
\* when its promise resolves the playing flag is set, forcedTime is clear
\* and the render loop has a pending callback; and the render that shows
\* the playing flag, on an element still playing, leaves the state-publish
\* loop and the render loop each with a pending callback.
C10_PlaySuccess ==
    /\ [][video'.play > video.play => IsNull(player'.forcedTimeRef)]_vars
    /\ [][video'.play < video.play /\ ~video'.paused =>
            /\ player'.isPlaying
            /\ IsNull(player'.forcedTimeRef)
            /\ player'.frameLoopRef = "cur"
            /\ player'.frameCbs >= 1]_vars
    /\ [][/\ ~player.rPlaying /\ player'.rPlaying
           /\ ~video'.paused /\ ~Ended(video')
           => /\ player'.timeUpdateRef = "cur" /\ player'.timeCbs >= 1
              /\ player'.frameLoopRef = "cur" /\ player'.frameCbs >= 1
              /\ player'.isPlayingRef]_vars

\* Playing was rendered after a resolved play request: both loops have a
\* pending callback on the playing element
C10_Witness ==
    /\ player.isPlaying /\ player.rPlaying /\ player.isPlayingRef
    /\ ~video.paused /\ video.play = 0 /\ video.time > 0
    /\ IsNull(player.forcedTimeRef)
    /\ player.frameLoopRef = "cur" /\ player.frameCbs >= 1
    /\ player.timeUpdateRef = "cur" /\ player.timeCbs >= 1

\* C2: with looping on, a tick of an unpaused element that sees the display
\* time reach the out point minus 0.01 s scrubs to the in point: the
\* published time, the media position and the carried playhead are the in
\* point, before the out point, the element stays unpaused, the transport
\* stays playing and the tick stays scheduled.
C2_TrimLoop ==
    [][hist'.wraps > hist.wraps /\ ~video.paused =>
         /\ player'.currentTime = preview.trimStart
         /\ preview'.lastPlayheadRef = preview.trimStart
         /\ video'.time = preview.trimStart
         /\ player'.currentTime < preview.trimEnd
         /\ ~video'.paused
         /\ player'.isPlaying = player.isPlaying
         /\ preview'.tickPending]_vars

\* A tick wrapped a playing element from the out point to a dragged in point
C2_Witness ==
    /\ hist.wraps = 1 /\ preview.isLooping /\ preview.tickPending
    /\ preview.trimStart > 0
    /\ ~video.paused /\ player.isPlaying
    /\ player.currentTime = preview.trimStart
    /\ video.time = preview.trimStart

----------------------------------------------------------------------------
(* Release of the loops *)

\* Neither loop holds a handle and no callback of either loop is pending
NoHandles ==
    /\ player.frameLoopRef = "null" /\ player.timeUpdateRef = "null"
    /\ player.frameCbs = 0 /\ player.timeCbs = 0
    /\ player.frameOld = 0 /\ player.timeOld = 0

\* A step of an operation that releases: the element is paused (by the
\* pause of togglePlayback, pausePlayback, pauseAt or the end of the media),
\* pauseAt parks a paused element, the source changes (swap, stop and
\* unload), or the component is torn down
ReleaseStep ==
    \/ ~video.paused /\ video'.paused
    \/ ~IsNull(hist'.pausedAt) /\ hist'.pausedAt # hist.pausedAt
    \/ player'.videoSource # player.videoSource
    \/ player.mounted /\ ~player'.mounted

\* C11: after a pause, pauseAt, stop and unload, the natural end, a source
\* swap or the teardown of the component, neither the render loop nor the
\* state-publish loop holds a pending callback handle.
C11_GuaranteedRelease ==
    [][ReleaseStep => NoHandles']_vars

\* A preview that was playing, with its loops running, has been torn
\* down and holds no handle
C11_Witness ==
    /\ ~player.mounted
    /\ player.isPlaying /\ player.isPlayingRef
    /\ NoHandles

----------------------------------------------------------------------------
(* Scrub *)

\* What a caller observes of a scrub: the reported current time, forcedTime
\* and the media position (with the target of a seek that has not landed)
ScrubView(w) ==
    <<w.p.currentTime, w.p.forcedTimeRef, w.v.time, w.v.seek, w.v.target>>

\* C12: scrub idempotence: calling scrub(t) twice in a row with the same t
\* yields the same reported current time, forcedTime and media position as
\* calling it once.
C12_ScrubIdempotence ==
    \A t \in Times, lag \in BOOLEAN, throws \in BOOLEAN :
        LET once == scrub(W, t, lag, throws)
            twice == scrub(once, t, lag, throws)
        IN  ScrubView(twice) = ScrubView(once)

\* A scrub during playback has moved the element, whose seek has not
\* landed yet, and published its time
C12_Witness ==
    /\ player.isPlaying /\ ~video.paused
    /\ video.seek = "lag" /\ video.target # video.time
    /\ player.currentTime = video.target
    /\ IsNull(player.forcedTimeRef)

\* C13: scrub(t) sets the media position to t and republishes t without
\* changing the play state: the playing flag, the media's paused/playing
\* state and both loop handles are left unchanged.
C13_ScrubFrame ==
    \A t \in Times, lag \in BOOLEAN, throws \in BOOLEAN :
        LET w == scrub(W, t, lag, throws) IN
        player.videoSource # 0 =>
            /\ w.p.currentTime = t
            /\ video.ready =>
                   IF w.v.seek = "lag" THEN w.v.target = t ELSE w.v.time = t
            /\ w.p.isPlaying = player.isPlaying
            /\ w.v.paused = video.paused
            /\ w.v.play = video.play
            /\ w.p.frameLoopRef = player.frameLoopRef
            /\ w.p.timeUpdateRef = player.timeUpdateRef
            /\ w.p.frameCbs = player.frameCbs
            /\ w.p.timeCbs = player.timeCbs

\* A scrub has landed away from the start while the element plays and both
\* loops run
C13_Witness ==
    /\ player.isPlaying /\ ~video.paused
    /\ player.frameLoopRef = "cur" /\ player.timeUpdateRef = "cur"
    /\ video.seek = "landed" /\ video.time > 0
    /\ player.currentTime = video.time

\* C14: if scrub(t) is called when the underlying seek throws (source not
\* yet seekable), t is recorded as forcedTime, subsequent reads report t,
\* and the seek to t is replayed once the source's metadata is ready.
C14_DeferredSeek ==
    /\ [](\A t \in Times, lag \in BOOLEAN :
            LET w == scrub(W, t, lag, TRUE) IN
            player.videoSource # 0 /\ ~video.ready =>
                w.p.forcedTimeRef = Some(t) /\ w.p.currentTime = t)
    /\ [](~video.ready /\ ~IsNull(player.forcedTimeRef) =>
            player.currentTime = player.forcedTimeRef[1])
    /\ [][~video.ready /\ video'.ready /\ ~IsNull(player.forcedTimeRef) =>
            /\ video'.time = player.forcedTimeRef[1]
            /\ player'.currentTime = player.forcedTimeRef[1]]_vars

\* The metadata has arrived, no input was taken since, and the element
\* stands at a time away from the start that was asked for before
C14_Witness ==
    /\ video.ready /\ video.paused
    /\ player.duration # 0 /\ player.rDuration = 0
    /\ video.time > 0 /\ player.currentTime = video.time
    /\ IsNull(player.forcedTimeRef)

----------------------------------------------------------------------------
(* Export on a host without the capability *)

\* C15: if the capture-stream API is unavailable or no recording mime type
\* is supported, export fails immediately with status error and no partial
\* side effects: no run is started (no recorder or stream allocated, no
\* listener attached) and playback is untouched.
C15_UnsupportedExport ==
    \A host \in Hosts, allowed \in BOOLEAN :
        LET w == exportCut(W, host, allowed) IN
        (~host.capture \/ ~host.mime) /\ export.status # "exporting" =>
            /\ w.e.status = "error"
            /\ w.e.stage = export.stage
            /\ w.e.listening = export.listening
            /\ w.v = video
            /\ w.p = player

----------------------------------------------------------------------------
(* Effect strengths *)

\* The strengths of the paused regime for the current amounts
FullStrength == drawFrame([W EXCEPT !.p.isPlayingRef = FALSE])

\* The strengths of the live-preview regime for the current amounts
PreviewStrength == drawFrame([W EXCEPT !.p.isPlayingRef = TRUE])

\* The render loop has a callback pending that will composite a frame
FrameDue == player.frameCbs > 0 /\ ~video.paused /\ ~Ended(video)

\* C16: frames composited during export capture use the full-strength
\* effect amounts (sharpen capped at 0.6, noise at 20% of slider, grain at
\* 30% of slider), the same regime as when paused, not the reduced
\* live-preview amounts.
C16_ExportQuality ==
    export.stage = "recording" /\ FrameDue => drawFrame(W) = FullStrength

\* C17: for every slider input in [0,1], each effect strength used while
\* playing (sharpen, noise, grain) is less than or equal to the strength
\* used while paused for the same input, and the two regimes differ for
\* some input.
C17_QualityCap ==
    /\ PreviewStrength.sharpen <= FullStrength.sharpen
    /\ PreviewStrength.noise <= FullStrength.noise
    /\ PreviewStrength.grain <= FullStrength.grain
    /\ FullStrength.sharpen <= 6000
    /\ preview.sharpenAmount > 20 /\ preview.noiseAmount > 0
           /\ preview.grainAmount > 0
       => PreviewStrength.sharpen < FullStrength.sharpen
          /\ PreviewStrength.noise < FullStrength.noise
          /\ PreviewStrength.grain < FullStrength.grain

\* A frame is due in live preview, with amounts that the user has set, for
\* which every strength is below the one of the paused regime
C17_Witness ==
    /\ player.isPlayingRef /\ FrameDue /\ export.stage = "none"
    /\ preview.sharpenAmount > 60 /\ preview.noiseAmount > 60
    /\ preview.grainAmount > 60
    /\ drawFrame(W) = PreviewStrength
    /\ PreviewStrength.sharpen < FullStrength.sharpen
    /\ PreviewStrength.noise < FullStrength.noise
    /\ PreviewStrength.grain < FullStrength.grain

----------------------------------------------------------------------------
(* The clip list *)

\* C18: in every reachable state every clip of the sequence satisfies
\* 0 <= inPoint < outPoint <= source duration, across add-to-timeline, trim
\* change, split, and the clamp applied when the real media duration
\* becomes known.
C18_TrimRange ==
    \A i \in 1..Len(page.sequence) :
        LET clip == page.sequence[i] IN
        /\ 0 <= clip.inPoint
        /\ clip.inPoint < clip.outPoint
        /\ clip.outPoint <= SourceDuration(clip.assetId)

\* C19: splitting at the timeline playhead with offset o inside the
\* containing clip, 0.1 < o < duration - 0.1, replaces that clip in place
\* by two clips sharing its source with first.outPoint == second.inPoint
\* == inPoint + o, first.inPoint and second.outPoint unchanged; with o
\* outside that margin the sequence is unchanged.
C19_Split ==
    LET seq == page.sequence
        after == handleSplitClip(W).g.sequence
        holds == {i \in 1..Len(seq) :
                    /\ page.timelineTime >= ClipStart(seq, i)
                    /\ page.timelineTime
                           < ClipStart(seq, i) + seq[i].outPoint - seq[i].inPoint}
    IN  IF \E i \in holds :
              LET o == page.timelineTime - ClipStart(seq, i) IN
              SplitMargin < o
              /\ o < seq[i].outPoint - seq[i].inPoint - SplitMargin
        THEN \E i \in holds :
               LET o == page.timelineTime - ClipStart(seq, i) IN
               /\ Len(after) = Len(seq) + 1
               /\ \A j \in 1..(i - 1) : after[j] = seq[j]
               /\ \A j \in (i + 1)..Len(seq) : after[j + 1] = seq[j]
               /\ after[i].assetId = seq[i].assetId
               /\ after[i + 1].assetId = seq[i].assetId
               /\ after[i].inPoint = seq[i].inPoint
               /\ after[i].outPoint = seq[i].inPoint + o
               /\ after[i + 1].inPoint = seq[i].inPoint + o
               /\ after[i + 1].outPoint = seq[i].outPoint
        ELSE after = seq

\* A split has put two clips of one asset in the place of one: the second,
\* the active clip, starts in the source where the first ends
C19_Witness ==
    /\ hist.edits > 0
    /\ \E i \in 1..(Len(page.sequence) - 1) :
          /\ page.activeClipId = i + 1
          /\ page.sequence[i].assetId = page.sequence[i + 1].assetId
          /\ page.sequence[i].outPoint = page.sequence[i + 1].inPoint
          /\ page.sequence[i].inPoint < page.sequence[i].outPoint
          /\ page.sequence[i + 1].inPoint < page.sequence[i + 1].outPoint

\* The sum of outPoint - inPoint over the first n clips
RECURSIVE SpanSum(_, _)
SpanSum(seq, n) ==
    IF n = 0 THEN 0
    ELSE SpanSum(seq, n - 1) + seq[n].outPoint - seq[n].inPoint

\* C20: for every clip list, each clip's derived start equals the sum of
\* the durations of the clips before it, its duration equals outPoint -
\* inPoint, and sequenceDuration equals the sum of all clip durations; this
\* holds after every add, split, delete and trim change.
C20_SequenceTiming ==
    LET seq == page.sequence IN
    /\ \A i \in 1..Len(seq) :
          /\ ClipDuration(seq[i]) = seq[i].outPoint - seq[i].inPoint
          /\ ClipStart(seq, i) = SpanSum(seq, i - 1)
    /\ sequenceDuration(seq) = SpanSum(seq, Len(seq))

\* After a split and a trim change the timeline holds three clips, of
\* which two start inside their source
C20_Witness ==
    /\ Len(page.sequence) = 3 /\ hist.edits > 0
    /\ page.sequence[2].inPoint > 0 /\ page.sequence[3].inPoint > 0
    /\ sequenceDuration(page.sequence) > 0

\* ------------------------------------------------------------------
\* Mapping of timeline time to clips
\* ------------------------------------------------------------------

\* The timeline times at which the mapping can change: both ends of every
\* clip with their neighbours, the middle of every clip, and the times past
\* the end of the sequence
Probes(seq) ==
    LET total == sequenceDuration(seq)
        marks == UNION {{ClipStart(seq, i) - 1, ClipStart(seq, i),
                         ClipStart(seq, i) + 1,
                         ClipStart(seq, i) + ClipDuration(seq[i]) \div 2,
                         ClipStart(seq, i) + ClipDuration(seq[i]) - 1,
                         ClipStart(seq, i) + ClipDuration(seq[i])} :
                        i \in 1..Len(seq)}
    IN  {t \in marks \cup {0, total, total + 1, total + MaxMinGap} : t >= 0}

\* C21: for every non-empty sequence getClipAtTime returns a clip for every
\* time in [0, sequenceDuration), namely the clip whose [start, start +
\* duration) holds the time; the index returned does not decrease as the
\* time grows; from sequenceDuration on it returns the last clip.
C21_MapGlobalTime ==
    LET seq == page.sequence
        total == sequenceDuration(seq)
    IN  Len(seq) > 0 =>
          /\ \A t \in Probes(seq) :
                LET i == getClipAtTime(seq, t) IN
                /\ i \in 1..Len(seq)
                /\ t < total =>
                      /\ ClipStart(seq, i) <= t
                      /\ t < ClipStart(seq, i) + ClipDuration(seq[i])
                /\ t >= total => i = Len(seq)
          /\ \A t, u \in Probes(seq) :
                t <= u => getClipAtTime(seq, t) <= getClipAtTime(seq, u)

\* A scrub of the timeline landed in the second of several clips, at the
\* very start of that clip, and made it the active one
C21_Witness ==
    LET seq == page.sequence IN
    /\ Len(seq) >= 2
    /\ ClipDuration(seq[1]) > 0 /\ ClipDuration(seq[2]) > 0
    /\ page.timelineTime = ClipStart(seq, 2)
    /\ getClipAtTime(seq, page.timelineTime) = 2
    /\ page.activeClipId = 2

\* ------------------------------------------------------------------
\* Deleting the last clip
\* ------------------------------------------------------------------

\* The preview is stopped: the element is paused, the transport is not
\* playing, and no callback of the render loop, the time loop or the trim
\* tick is pending
PreviewStopped ==
    /\ video.paused /\ ~player.isPlaying
    /\ NoHandles
    /\ ~preview.tickPending /\ ~preview.stopLockRef

\* The page without clips
EmptySequencer ==
    /\ page.sequence = <<>>
    /\ page.activeClipId = 0
    /\ page.activeVideo = 0
    /\ page.timelineTime = 0
    /\ ~page.sequencePlayRef

\* C22: deleting the last remaining clip resets the sequencer to the empty
\* state: empty clip list, no active clip, no active video, timeline time 0,
\* sequence-playing flag false, and the preview stopped.
C22_DeleteLastClip ==
    [][(Len(page.sequence) = 1 /\ Len(page.sequence') = 0)
         => (EmptySequencer /\ PreviewStopped)']_vars

\* The last clip has just been deleted while it was playing: the preview
\* still shows its source, rendered as playing, and is stopped
C22_Witness ==
    /\ EmptySequencer /\ PreviewStopped
    /\ hist.edits > 0
    /\ player.videoSource # 0 /\ player.rPlaying
    /\ video.ready /\ video.time > 0

\* ------------------------------------------------------------------
\* The trim handles
\* ------------------------------------------------------------------

C24_CropFallback ==
    LET w1 == handleVideoError(W)
        w2 == handleVideoError(w1)
    IN  /\ (page.cropMode = "cloudinary" /\ page.cropFocus # "center") =>
              /\ w1.g.cropFocus = "center"
              /\ w1.g.cropMode = "cloudinary"
              /\ w1.g.cloudinaryError = "smart"
        /\ (page.cropMode = "cloudinary" /\ page.cropFocus = "center") =>
              /\ w1.g.cropMode = "local"
              /\ w1.g.cropFocus = "center"
              /\ w1.g.cloudinaryError = "failed"
        /\ page.cropMode = "local" => w1 = W
        /\ w2.g.cropMode = "local"

\* The remote crop has failed for the last time while its source was
\* loading: the page shows the message of the fallback to the local crop
C24_Witness ==
    /\ page.cropMode = "local" /\ page.cropFocus = "center"
    /\ page.cloudinaryError = "failed"
    /\ page.activeVideo # 0 /\ ~video.ready

\* ------------------------------------------------------------------
\* The crop geometry
\* ------------------------------------------------------------------

\* Target ratios: those of the crop control and others, wide and tall
Ratios ==
    { [n |-> 1, d |-> 1], [n |-> 16, d |-> 9], [n |-> 9, d |-> 16],
      [n |-> 4, d |-> 3], [n |-> 21, d |-> 9], [n |-> 1, d |-> 3],
      [n |-> 177, d |-> 100] }

\* C25: for all positive sourceW, sourceH and positive targetAspectRatio the
\* resolved crop has sourceCropWidth / sourceCropHeight equal to the target
\* ratio, is centered (sourceX = (sourceW - cropW) / 2, sourceY = (sourceH -
\* cropH) / 2) and lies inside the source (cropW <= sourceW, cropH <=
\* sourceH, offsets >= 0).
C25_CropGeometry ==
    video.ready =>
      \A r \in Ratios :
        LET sw == video.videoWidth
            sh == video.videoHeight
            c == computeOutputSize(Some(r), sw, sh)
        IN  /\ sw > 0 /\ sh > 0
            /\ c.sWidth * r.d = c.sHeight * r.n
            /\ 2 * c.sx = sw * c.q - c.sWidth
            /\ 2 * c.sy = sh * c.q - c.sHeight
            /\ c.sWidth <= sw * c.q /\ c.sHeight <= sh * c.q
            /\ c.sx >= 0 /\ c.sy >= 0
            /\ c.sx + c.sWidth <= sw * c.q /\ c.sy + c.sHeight <= sh * c.q

\* A wide source is loaded under the square crop: the canvas is the square
\* of the source's height
C25_Witness ==
    /\ video.ready /\ preview.aspectRatio = "square"
    /\ video.videoWidth > video.videoHeight
    /\ player.canvasSize = <<video.videoHeight, video.videoHeight>>

\* The values of targetAspectRatio that ask for no crop: absent, zero and
\* negative ones
NoRatios == {Null, Some([n |-> 0, d |-> 1]), Some([n |-> -1, d |-> 1]),
             Some([n |-> -16, d |-> 9])}

\* C26: when targetAspectRatio is absent or <= 0, for any positive source
\* size the output size equals the source size and the crop is the full
\* frame (sx = sy = 0, sWidth = sourceW, sHeight = sourceH).
C26_IdentityCrop ==
    video.ready =>
      \A t \in NoRatios :
        LET sw == video.videoWidth
            sh == video.videoHeight
            c == computeOutputSize(t, sw, sh)
        IN  /\ sw > 0 /\ sh > 0
            /\ c.width = sw /\ c.height = sh
            /\ c.sx = 0 /\ c.sy = 0
            /\ c.sWidth = sw * c.q /\ c.sHeight = sh * c.q

\* A tall source, of a size other than the assumed one, is loaded without
\* a crop: the canvas has the size of the source
C26_Witness ==
    /\ video.ready /\ preview.aspectRatio = "none"
    /\ video.videoWidth < video.videoHeight
    /\ player.canvasSize = <<video.videoWidth, video.videoHeight>>

\* ------------------------------------------------------------------
\* The reset at a change of source
\* ------------------------------------------------------------------

\* The derived state of the transport as the source effect leaves it
TransportReset ==
    /\ player.currentTime = 0
    /\ player.duration = 0
    /\ ~player.isPlaying
    /\ IsNull(player.forcedTimeRef)
    /\ NoHandles

\* C27: when the source changes, all derived transport state is reset
\* before the new source's metadata arrives: reported time 0, duration 0,
\* playing false, forcedTime cleared, and both loops canceled.
C27_SourceReset ==
    /\ [][player.videoSource' # player.videoSource => TransportReset']_vars
    /\ []((player.mounted /\ video.src # 0 /\ ~video.ready)
             => (player.duration = 0 /\ ~player.isPlaying /\ NoHandles))

\* A source that was playing has just been replaced:
\* the render still shows the old duration and the playing state, the new
\* element has no metadata, and the transport is reset
C27_Witness ==
    /\ player.videoSource # 0 /\ video.src = player.videoSource
    /\ ~video.ready
    /\ player.rPlaying /\ player.rDuration > 0
    /\ TransportReset

\* ------------------------------------------------------------------
\* Termination of an export run
\* ------------------------------------------------------------------

\* C28: every export run that enters status exporting eventually leaves it
\* (reaches done or error), under fair delivery of media, recorder and
\* network events, whatever the trim range, the loop setting and the
\* outcome of the play request.
C28_ExportLiveness ==
    (export.status = "exporting") ~> (export.status \in {"done", "error"})

\* ------------------------------------------------------------------
\* The two loops of the transport
\* ------------------------------------------------------------------

\* The callbacks of a loop that the host still holds, whichever element
\* they were requested on
FramePending == player.frameCbs + player.frameOld
TimePending == player.timeCbs + player.timeOld

\* The transport is playing, as published and as rendered, on the element of
\* the current source, which is neither paused nor at its end
PlayingOnSource ==
    /\ player.isPlaying /\ player.rPlaying /\ player.isPlayingRef
    /\ player.mounted /\ video.src # 0 /\ video.src = player.videoSource
    /\ video.play = 0
    /\ ~video.paused /\ ~Ended(video)

\* C29: under any interleaving of togglePlayback, pausePlayback, pauseAt,
\* scrub, source swap, play-promise resolution and loop ticks, each of the
\* two loops has at most one pending callback, and while the transport is
\* playing on an unpaused current source each loop has exactly one.
C29_NoDoubleScheduling ==
    /\ FramePending <= 1 /\ TimePending <= 1
    /\ PlayingOnSource => (FramePending = 1 /\ TimePending = 1)

\* The callback of a loop is due while the mounted element is paused or
\* ended
IdleFrameTick == player.frameCbs > 0 /\ (video.paused \/ Ended(video))
IdleTimeTick == player.timeCbs > 0 /\ (video.paused \/ Ended(video))

\* In w, next to the present state, nothing has been published to the
\* component and nothing done to the element, the preview or the export run
NoPublish(w) ==
    /\ w.p.currentTime = player.currentTime
    /\ w.p.lastTimeUpdateValueRef = player.lastTimeUpdateValueRef
    /\ w.p.isPlaying = player.isPlaying
    /\ w.p.duration = player.duration
    /\ w.p.forcedTimeRef = player.forcedTimeRef
    /\ w.v = video /\ w.c = preview /\ w.e = export /\ w.g = page

\* In w the render loop has given up its handle and one callback, and has
\* requested none
FrameGivenUp(w) ==
    /\ NoPublish(w)
    /\ w.p.frameLoopRef = "null"
    /\ w.p.frameCbs + w.p.frameOld = FramePending - 1
    /\ w.p.timeCbs + w.p.timeOld = TimePending

\* The same of the state-publish loop
TimeGivenUp(w) ==
    /\ NoPublish(w)
    /\ w.p.timeUpdateRef = "null"
    /\ w.p.timeCbs + w.p.timeOld = TimePending - 1
    /\ w.p.frameCbs + w.p.frameOld = FramePending

\* C30: a loop tick that fires after its captured media source has been
\* replaced, or while the source is paused or ended, performs no draw and
\* no time publish, clears its own handle and does not reschedule itself.
C30_StaleTick ==
    /\ [][StaleFrameLoop => FrameGivenUp(W')]_vars
    /\ [][StaleTimeLoop => TimeGivenUp(W')]_vars
    /\ [](IdleFrameTick => FrameGivenUp(frameLoop(W)))
    /\ [](IdleTimeTick => \A due \in BOOLEAN : TimeGivenUp(timeLoop(W, due)))

\* The source of a playing preview has been replaced, the callbacks that
\* both loops had requested for the old element have fired before the
\* effects of the render, and no handle or callback is left
C30_Witness ==
    /\ player.effectsPending
    /\ hist.staleTicks >= 2
    /\ player.isPlaying
    /\ NoHandles

\* ------------------------------------------------------------------
\* The export status during a run
\* ------------------------------------------------------------------

\* A run of exportCut has set the status exporting and has reported
\* neither done nor error
RunInProgress ==
    /\ export.stage \in {"recording", "stopping", "signing", "uploading"}
    /\ ~hist.failed

\* C31: from the moment an export run sets status exporting until that run
\* reports done or error, the published export status stays exporting; no
\* timer or callback belonging to an earlier run resets it to idle or to
\* progress 0.
C31_ExportContinuity ==
    RunInProgress => export.status = "exporting"

\* ------------------------------------------------------------------
\* Drift correction of the trim tick
\* ------------------------------------------------------------------

\* A tick is due and the media time is behind the last display time by
\* less than 0.02 s
JitterBack ==
    /\ preview.tickPending
    /\ video.time < preview.lastPlayheadRef
    /\ preview.lastPlayheadRef - video.time < BackDrift

\* The media time is before the out point's window
BeforeOut ==
    ~(preview.trimEnd > 0 /\ video.time >= preview.trimEnd - TrimEpsilon)

LiveFrameTick ==
    /\ player.frameCbs > 0
    /\ player.mounted /\ video.src # 0 /\ video.src = player.videoSource
    /\ ~video.paused /\ ~Ended(video)

\* C33: every render-loop tick on the current, unpaused source reschedules
\* exactly one next tick whether or not it draws; it draws only if the
\* media position changed by at least 0.0005 s since the last
\* drawn-candidate tick and at least 33 ms elapsed since the last draw.
\* The tick records the position it read as that of the latest candidate
\* and changes nothing else.
C33_RenderTick ==
    LiveFrameTick =>
        /\ frameLoop(W) = [W EXCEPT !.p.frameLoopRef = "cur",
                                    !.p.lastMediaTimeRef = video.time]
        /\ frameLoop(W).p.frameCbs + frameLoop(W).p.frameOld = 1
        /\ \A due \in BOOLEAN :
              frameDraws(W, due) =>
                  (due /\ video.time # player.lastMediaTimeRef)

\* A tick is due on a playing source whose position is the one recorded by
\* the previous tick: it draws nothing and requests the next tick
C33_Witness ==
    /\ LiveFrameTick
    /\ player.isPlaying /\ player.rPlaying
    /\ video.time > 0 /\ video.time = player.lastMediaTimeRef
    /\ ~frameDraws(W, TRUE)
    /\ frameLoop(W).p.frameCbs = 1

\* ------------------------------------------------------------------
\* A rejected play request
\* ------------------------------------------------------------------

\* A step of a togglePlayback whose play request the host rejects
RejectedPlay == hist'.denied # hist.denied

\* C34: a rejected play request leaves the transport state unchanged: after
\* togglePlayback fails, the playing flag, both loop handles and forcedTime
\* (hence the reported current time after a preceding pauseAt) are the same
\* as before the call.
C34_RejectedPlay ==
    [][RejectedPlay =>
          /\ player'.isPlaying = player.isPlaying
          /\ player'.frameLoopRef = player.frameLoopRef
          /\ player'.timeUpdateRef = player.timeUpdateRef
          /\ player'.forcedTimeRef = player.forcedTimeRef
          /\ player'.currentTime = player.currentTime]_vars

\* ------------------------------------------------------------------
\* The end of the sequence
\* ------------------------------------------------------------------

\* During sequence playback a tick is due that stops at the out point of
\* the last clip and signals the boundary
AtLastBoundary ==
    /\ preview.tickPending
    /\ page.sequencePlayRef
    /\ Len(page.sequence) >= 1
    /\ page.activeClipId = Len(page.sequence)
    /\ ~preview.stopLockRef
    /\ tick(W, FALSE, FALSE).c.stopLockRef

\* C35: when the active clip is the last clip and its trim boundary is
\* reached during sequence playback, advance yields no next clip, the
\* sequence-playing flag becomes false, and no seek, source reload or play
\* command is issued: beyond the stop of the tick at the out point, the
\* page changes nothing but the flag.
C35_EndOfSequence ==
    AtLastBoundary =>
        \A allowed \in BOOLEAN :
            tickSignal(W, allowed) =
                [tick(W, FALSE, FALSE) EXCEPT !.g.sequencePlayRef = FALSE]

\* The second of two clips is playing in sequence and the tick that stops
\* at its out point is due
C35_Witness ==
    /\ AtLastBoundary
    /\ Len(page.sequence) = 2
    /\ player.isPlaying /\ ~video.paused
    /\ ~tickSignal(W, TRUE).g.sequencePlayRef
    /\ tickSignal(W, TRUE).v.paused

\* ------------------------------------------------------------------
\* The active clip
\* ------------------------------------------------------------------

C37_TimelineBounds ==
    Len(page.sequence) > 0 =>
        /\ page.timelineTime \in 0..sequenceDuration(page.sequence)
        /\ page.activeClipId \in 1..Len(page.sequence) =>
               LET start == ClipStart(page.sequence, page.activeClipId)
                   length == ClipDuration(page.sequence[page.activeClipId])
               IN  page.timelineTime \in start..(start + length)

\* ------------------------------------------------------------------
\* The gates of the effect passes
\* ------------------------------------------------------------------

\* The strengths at which a pass is gated: zero and a negative one
Gated == {-(SliderStep * 100), 0}

Modes == {"screen", "overlay"}

\* C38: for each of the sharpen, noise and grain passes, an amount <= 0
\* makes the pass perform no operation on the surface, so the composited
\* output equals the output with that step skipped entirely.
C38_EffectGating ==
    /\ \A amount \in Gated :
          /\ applySharpen(player.surface, amount) = player.surface
          /\ \A mode \in Modes, noise \in Noises :
                applyNoise(player.surface, amount, mode, noise)
                    = player.surface
    /\ \A amount \in Gated, noise \in Noises, grain \in Noises :
          LET frame == videoFrame(video)
              s == drawFrame(W)
          IN  /\ passes(frame, [s EXCEPT !.sharpen = amount], noise, grain)
                    = applyNoise(applyNoise(frame, s.noise, "screen", noise),
                                 s.grain, "overlay", grain)
              /\ passes(frame, [s EXCEPT !.noise = amount], noise, grain)
                    = applyNoise(applySharpen(frame, s.sharpen),
                                 s.grain, "overlay", grain)
              /\ passes(frame, [s EXCEPT !.grain = amount], noise, grain)
                    = applyNoise(applySharpen(frame, s.sharpen),
                                 s.noise, "screen", noise)

\* A frame has been composited with the sharpen slider at zero and the
\* noise and grain sliders up: the canvas differs from the frame, and it is
\* what noise and grain alone make of the frame
C38_Witness ==
    /\ video.ready /\ player.surface # Blank
    /\ preview.sharpenAmount = 0
    /\ preview.noiseAmount > 0 /\ preview.grainAmount > 0
    /\ player.surface # videoFrame(video)
    /\ \E noise \in Noises, grain \in Noises :
          player.surface =
              applyNoise(applyNoise(videoFrame(video), drawFrame(W).noise,
                                    "screen", noise),
                         drawFrame(W).grain, "overlay", grain)

====
